---- MODULE Spec2Model ----
(***************************************************************************)
(* Model of the AzSRE agent's decision core: the KQL sanitizer and         *)
(* template engine (app/core/kql_templates.py), the triage classifier      *)
(* (app/graph/nodes/triage.py), and the investigation pipeline             *)
(* (app/graph/workflow.py and the nodes under app/graph/nodes).            *)
(*                                                                         *)
(* Python strings are modelled as sequences of one-character strings, so   *)
(* that `in`, lower(), strip(), split() and the regular expressions are    *)
(* computed character by character.  Query templates are sequences of      *)
(* tokens: the characters that matter to the query grammar (the pipe, the  *)
(* double quote, white space) are tokens of their own, the placeholder is  *)
(* one token, and the rest of the template text is kept in opaque chunks.  *)
(***************************************************************************)
EXTENDS Integers, Sequences, FiniteSets, TLC

(***************************************************************************)
(* Python string operations                                                *)
(***************************************************************************)
UpperAZ == <<"A","B","C","D","E","F","G","H","I","J","K","L","M",
             "N","O","P","Q","R","S","T","U","V","W","X","Y","Z">>

LowerAZ == <<"a","b","c","d","e","f","g","h","i","j","k","l","m",
             "n","o","p","q","r","s","t","u","v","w","x","y","z">>

Digits == {"0","1","2","3","4","5","6","7","8","9"}

\* the characters Python's str.strip() removes and the regex class \s matches
Whitespace == {" ", "\t", "\n", "\r", "\f"}

Range(s) == {s[i] : i \in DOMAIN s}

LowerChar(c) ==
    IF \E i \in 1..26 : UpperAZ[i] = c
    THEN LowerAZ[CHOOSE i \in 1..26 : UpperAZ[i] = c]
    ELSE c

UpperChar(c) ==
    IF \E i \in 1..26 : LowerAZ[i] = c
    THEN UpperAZ[CHOOSE i \in 1..26 : LowerAZ[i] = c]
    ELSE c

\* str.lower()
Lower(s) == [i \in DOMAIN s |-> LowerChar(s[i])]

\* str.upper()
Upper(s) == [i \in DOMAIN s |-> UpperChar(s[i])]

\* `t in s` for strings
Contains(s, t) ==
    \E i \in 0..(Len(s) - Len(t)) : SubSeq(s, i + 1, i + Len(t)) = t

\* str.strip()
Strip(s) ==
    LET keep == {i \in DOMAIN s : s[i] \notin Whitespace}
    IN  IF keep = {} THEN <<>>
        ELSE SubSeq(s, CHOOSE i \in keep : \A j \in keep : i <= j,
                       CHOOSE i \in keep : \A j \in keep : j <= i)

\* str.replace(c, with) for a one-character pattern c
RECURSIVE Replace(_, _, _)
Replace(s, c, with) ==
    IF s = <<>> THEN <<>>
    ELSE IF Len(s) = 1 THEN (IF s[1] = c THEN with ELSE s)
    ELSE LET m == Len(s) \div 2
         IN  Replace(SubSeq(s, 1, m), c, with) \o Replace(SubSeq(s, m + 1, Len(s)), c, with)

\* s.split("/")[-1]: the text after the last slash (all of s when it has none)
LastSegment(s) ==
    LET slashes == {i \in DOMAIN s : s[i] = "/"}
    IN  IF slashes = {} THEN s
        ELSE SubSeq(s, (CHOOSE i \in slashes : \A j \in slashes : j <= i) + 1, Len(s))

\* the result of a call that returns a value or raises
Returned(v) == [ok |-> TRUE, err |-> "", val |-> v]

Raised(e) == [ok |-> FALSE, err |-> e, val |-> <<>>]

NotRun == [ok |-> FALSE, err |-> "not-run", val |-> <<>>]

(***************************************************************************)
(* app/core/kql_templates.py                                               *)
(***************************************************************************)
MAX_RESOURCE_NAME_LENGTH == 256

Placeholder == "{resource_name}"

KQLTemplate == [container_logs |-> "CONTAINER_LOGS",
                app_failures   |-> "APP_FAILURES",
                sql_errors     |-> "SQL_ERRORS"]

AppUnion ==
    <<"\n", " ", "union ", "\n", " ",
      "(AppExceptions ", "\n", " ", "|", " where TimeGenerated > ago(1h)", "\n", " ",
      "|", " project TimeGenerated, Type='Crash', Message=OuterMessage, Details=Method, AppRoleName),", "\n", " ",
      "(AppRequests ", "\n", " ", "|", " where TimeGenerated > ago(1h) and Success == false ", "\n", " ",
      "|", " project TimeGenerated, Type='HTTP Failure', Message=strcat(ResultCode, ' - ', Url), Details=Name, AppRoleName),", "\n", " ",
      "(AppTraces ", "\n", " ", "|", " where TimeGenerated > ago(1h) and SeverityLevel >= 3 ", "\n", " ",
      "|", " project TimeGenerated, Type='Error Log', Message=Message, Details=OperationName, AppRoleName)", "\n", " ">>

TEMPLATES ==
    [CONTAINER_LOGS |->
        <<"\n", " ", "ContainerAppConsoleLogs", "\n", " ",
          "|", " where TimeGenerated > ago(1h)", "\n", " ",
          "|", " where ContainerAppName has ", Placeholder, "\n", " ",
          "|", " project TimeGenerated, ContainerAppName, Log_s", "\n", " ",
          "|", " top 20 by TimeGenerated desc", "\n", " ">>,
     APP_FAILURES |->
        AppUnion \o
        <<"|", " where AppRoleName has ", Placeholder, "\n", " ",
          "|", " top 20 by TimeGenerated desc", "\n", " ">>,
     APP_FAILURES_UNKNOWN |->
        AppUnion \o
        <<"|", " where isempty(AppRoleName)", "\n", " ",
          "|", " top 20 by TimeGenerated desc", "\n", " ">>,
     SQL_ERRORS |->
        <<"\n", " ", "AzureDiagnostics", "\n", " ",
          "|", " where TimeGenerated > ago(1h)", "\n", " ",
          "|", " where Resource has ", Placeholder, "\n", " ",
          "|", " where Category == ", "\"", "SQLErrors", "\"", " or Category == ", "\"", "Timeouts", "\"", "\n", " ",
          "|", " project TimeGenerated, error_number_d, Message", "\n", " ",
          "|", " top 20 by TimeGenerated desc", "\n", " ">>]

dangerous_chars == <<"\n", "\r", "|", "\\">>

comment_tokens == << <<"/","/">>, <<"/","*">>, <<"*","/">> >>

\* the character class of re.compile(r'^[a-zA-Z0-9._\s/-]+$')
WhitelistChar(c) ==
    \/ \E i \in 1..26 : LowerAZ[i] = c \/ UpperAZ[i] = c
    \/ c \in Digits
    \/ c \in {".", "_", "/", "-"}
    \/ c \in Whitespace

whitelist_pattern_match(s) ==
    /\ Len(s) >= 1
    /\ \A i \in DOMAIN s : WhitelistChar(s[i])

sanitize_resource_name_no_dangerous(resource_name) ==
    IF resource_name = <<>> THEN Raised("ValueError")
    ELSE IF Len(resource_name) > MAX_RESOURCE_NAME_LENGTH THEN Raised("ValueError")
    ELSE IF ~whitelist_pattern_match(resource_name) THEN Raised("ValueError")
    ELSE Returned(resource_name)

sanitize_resource_name(resource_name) ==
    IF resource_name = <<>> THEN Raised("ValueError")
    ELSE IF Len(resource_name) > MAX_RESOURCE_NAME_LENGTH THEN Raised("ValueError")
    ELSE IF \E i \in DOMAIN dangerous_chars :
                Contains(resource_name, <<dangerous_chars[i]>>) THEN Raised("ValueError")
    ELSE IF \E i \in DOMAIN comment_tokens :
                Contains(resource_name, comment_tokens[i]) THEN Raised("ValueError")
    ELSE IF ~whitelist_pattern_match(resource_name) THEN Raised("ValueError")
    ELSE Returned(resource_name)

Str_unknown == <<"u","n","k","n","o","w","n">>

Str_container == <<"c","o","n","t","a","i","n","e","r">>

Str_app == <<"a","p","p">>

Str_sql == <<"s","q","l">>

Key_container_logs == <<"c","o","n","t","a","i","n","e","r","_","l","o","g","s">>

Key_app_failures == <<"a","p","p","_","f","a","i","l","u","r","e","s">>

Key_sql_errors == <<"s","q","l","_","e","r","r","o","r","s">>

\* KQLTemplate(template_key.lower()) and the fallback of its ValueError
ResolveKey(template_key) ==
    LET k == Lower(template_key)
    IN  IF k = Key_container_logs THEN KQLTemplate.container_logs
        ELSE IF k = Key_app_failures THEN KQLTemplate.app_failures
        ELSE IF k = Key_sql_errors THEN KQLTemplate.sql_errors
        ELSE IF Contains(k, Str_container) THEN KQLTemplate.container_logs
        ELSE IF Contains(k, Str_app) THEN KQLTemplate.app_failures
        ELSE IF Contains(k, Str_sql) THEN KQLTemplate.sql_errors
        ELSE KQLTemplate.container_logs

EscapedValue_unquoted(sanitized_resource) ==
    Replace(sanitized_resource, "\"", <<"\"", "\"">>)

\* sanitized_resource.replace('"', '""'), wrapped in double quotes
EscapedValue(sanitized_resource) ==
    <<"\"">> \o Replace(sanitized_resource, "\"", <<"\"", "\"">>) \o <<"\"">>

\* template.format(resource_name=escaped_value)
RECURSIVE Format(_, _)
Format(template, escaped_value) ==
    IF template = <<>> THEN <<>>
    ELSE IF Len(template) = 1
    THEN (IF template[1] = Placeholder THEN escaped_value ELSE template)
    ELSE LET m == Len(template) \div 2
         IN  Format(SubSeq(template, 1, m), escaped_value)
             \o Format(SubSeq(template, m + 1, Len(template)), escaped_value)

get_template_no_unknown(template_key, resource_name) ==
    LET sanitized == sanitize_resource_name(resource_name)
    IN  IF ~sanitized.ok THEN sanitized
        ELSE Returned(Strip(Format(TEMPLATES[ResolveKey(template_key)],
                                   EscapedValue(sanitized.val))))

get_template_strict_key(template_key, resource_name) ==
    IF Lower(resource_name) = Str_unknown /\ Contains(Lower(template_key), Str_app)
    THEN Returned(Strip(TEMPLATES["APP_FAILURES_UNKNOWN"]))
    ELSE LET sanitized == sanitize_resource_name(resource_name)
             k         == Lower(template_key)
         IN  IF ~sanitized.ok THEN sanitized
             ELSE IF ~(Contains(k, Str_container) \/ Contains(k, Str_app)
                       \/ Contains(k, Str_sql))
             THEN Raised("KeyError")
             ELSE Returned(Strip(Format(TEMPLATES[ResolveKey(template_key)],
                                        EscapedValue(sanitized.val))))

get_template(template_key, resource_name) ==
    IF Lower(resource_name) = Str_unknown /\ Contains(Lower(template_key), Str_app)
    THEN Returned(Strip(TEMPLATES["APP_FAILURES_UNKNOWN"]))
    ELSE LET sanitized == sanitize_resource_name(resource_name)
         IN  IF ~sanitized.ok THEN sanitized
             ELSE Returned(Strip(Format(TEMPLATES[ResolveKey(template_key)],
                                        EscapedValue(sanitized.val))))

(***************************************************************************)
(* app/graph/nodes/triage.py                                               *)
(***************************************************************************)
\* Python's None, kept a sequence so that it compares with strings
PyNone == <<"<None>">>

Cat_INFRA == <<"I","N","F","R","A">>

Cat_DATABASE == <<"D","A","T","A","B","A","S","E">>

Cat_NETWORK == <<"N","E","T","W","O","R","K">>

Cat_APP == <<"A","P","P">>

Cat_UNKNOWN == <<"U","N","K","N","O","W","N">>

valid_categories == {Cat_INFRA, Cat_DATABASE, Cat_NETWORK, Cat_APP}

app_keywords ==
    {<<"e","x","c","e","p","t","i","o","n">>,
     <<"f","a","i","l","e","d"," ","r","e","q","u","e","s","t","s">>,
     <<"e","r","r","o","r">>,
     <<"5","0","0">>,
     <<"4","0","3">>,
     <<"4","0","4">>,
     <<"t","i","m","e","o","u","t">>,
     <<"a","n","o","m","a","l","y">>,
     <<"s","m","a","r","t"," ","d","e","t","e","c","t","i","o","n">>}

infra_metric_names ==
    {<<"c","p","u"," ","u","s","a","g","e">>,
     <<"c","p","u","u","s","a","g","e">>,
     <<"c","p","u"," ","p","e","r","c","e","n","t","a","g","e">>,
     <<"c","p","u","p","e","r","c","e","n","t","a","g","e">>,
     <<"m","e","m","o","r","y"," ","u","s","a","g","e">>,
     <<"m","e","m","o","r","y","u","s","a","g","e">>,
     <<"m","e","m","o","r","y"," ","p","e","r","c","e","n","t","a","g","e">>,
     <<"m","e","m","o","r","y","p","e","r","c","e","n","t","a","g","e">>,
     <<"m","e","m","o","r","y"," ","w","o","r","k","i","n","g"," ","s","e","t">>,
     <<"w","o","r","k","i","n","g"," ","s","e","t">>,
     <<"d","i","s","k"," ","u","s","a","g","e">>,
     <<"d","i","s","k","u","s","a","g","e">>,
     <<"p","r","o","c","e","s","s","o","r"," ","t","i","m","e">>,
     <<"p","r","o","c","e","s","s","o","r"," ","t","i","m","e"," ","p","e","r","c","e","n","t","a","g","e">>}

infra_keywords ==
    {<<"v","m">>,
     <<"n","o","d","e">>,
     <<"c","a","p","a","c","i","t","y">>,
     <<"c","o","n","t","a","i","n","e","r"," ","c","r","a","s","h","e","d">>,
     <<"n","o","d","e"," ","u","n","h","e","a","l","t","h","y">>}

database_keywords ==
    {<<"s","q","l">>,
     <<"c","o","s","m","o","s">>,
     <<"r","e","d","i","s">>,
     <<"d","t","u">>,
     <<"d","a","t","a","b","a","s","e">>,
     <<"d","b">>}

network_keywords ==
    {<<"d","n","s">>,
     <<"v","n","e","t">>,
     <<"f","i","r","e","w","a","l","l">>,
     <<"i","p">>,
     <<"l","o","a","d"," ","b","a","l","a","n","c","e","r">>}

Str_application_insights == <<"a","p","p","l","i","c","a","t","i","o","n"," ","i","n","s","i","g","h","t","s">>

Str_application == <<"a","p","p","l","i","c","a","t","i","o","n">>

Str_platform == <<"p","l","a","t","f","o","r","m">>

Str_infrastructure == <<"i","n","f","r","a","s","t","r","u","c","t","u","r","e">>

Str_providers == <<"/","p","r","o","v","i","d","e","r","s","/">>

Str_Unknown == <<"U","n","k","n","o","w","n">>

\* any(keyword in text for keyword in keywords)
AnyIn(keywords, text) == \E k \in keywords : Contains(text, k)

\* alert.essentials.alertTargetIDs[0] if alert.essentials.alertTargetIDs else dflt
FirstTarget(a, dflt) ==
    IF a.alertTargetIDs # <<>> THEN a.alertTargetIDs[1] ELSE dflt

\* target_id.split("/providers/")[1].split("/")[0], "Unknown" without "/providers/"
ResourceType(target_id) ==
    IF ~Contains(target_id, Str_providers) THEN Str_Unknown
    ELSE LET n     == Len(Str_providers)
             at    == CHOOSE i \in 0..(Len(target_id) - n) :
                         /\ SubSeq(target_id, i + 1, i + n) = Str_providers
                         /\ \A j \in 0..(i - 1) : SubSeq(target_id, j + 1, j + n) # Str_providers
             rest  == SubSeq(target_id, at + n + 1, Len(target_id))
             stops == {i \in DOMAIN rest : rest[i] = "/"}
         IN  IF stops = {} THEN rest
             ELSE SubSeq(rest, 1, (CHOOSE i \in stops : \A j \in stops : i <= j) - 1)

\* the metricName of alertContext.condition, directly or in allOf[0]
ExtractMetricName(a) ==
    IF ~a.condition.present THEN <<>>
    ELSE IF a.condition.metricName # <<>> THEN a.condition.metricName
    ELSE IF a.condition.allOf # <<>> THEN a.condition.allOf[1]
    ELSE <<>>

\* f"{rule_lower} {desc_lower} {metric_lower}".strip()
CombinedText(a) ==
    Strip(Lower(a.alertRule) \o <<" ">> \o Lower(a.description) \o <<" ">>
          \o Lower(ExtractMetricName(a)))

IsApplicationService(a) ==
    \/ Contains(Lower(a.monitoringService), Str_application_insights)
    \/ Contains(Lower(a.monitoringService), Str_application)

IsPlatformService(a) ==
    \/ Contains(Lower(a.monitoringService), Str_platform)
    \/ Contains(Lower(a.monitoringService), Str_infrastructure)

PreCheck_network_first(a) ==
    LET combined_text == CombinedText(a)
        metric_name   == ExtractMetricName(a)
    IN  IF AnyIn(app_keywords, combined_text)
        THEN (IF IsApplicationService(a) THEN Cat_APP ELSE PyNone)
        ELSE IF metric_name # <<>> /\ AnyIn(infra_metric_names, Lower(metric_name))
        THEN (IF IsPlatformService(a) THEN Cat_INFRA ELSE PyNone)
        ELSE IF AnyIn(network_keywords, combined_text) THEN Cat_NETWORK
        ELSE IF AnyIn(database_keywords, combined_text) THEN Cat_DATABASE
        ELSE IF AnyIn(infra_keywords, combined_text)
        THEN (IF IsPlatformService(a) THEN Cat_INFRA ELSE PyNone)
        ELSE PyNone

PreCheck_fallthrough(a) ==
    LET combined_text == CombinedText(a)
        metric_name   == ExtractMetricName(a)
    IN  IF AnyIn(app_keywords, combined_text) /\ IsApplicationService(a) THEN Cat_APP
        ELSE IF /\ metric_name # <<>>
                /\ AnyIn(infra_metric_names, Lower(metric_name))
                /\ IsPlatformService(a) THEN Cat_INFRA
        ELSE IF AnyIn(database_keywords, combined_text) THEN Cat_DATABASE
        ELSE IF AnyIn(network_keywords, combined_text) THEN Cat_NETWORK
        ELSE IF AnyIn(infra_keywords, combined_text) /\ IsPlatformService(a) THEN Cat_INFRA
        ELSE PyNone

\* "0. PRE-CHECK": the forced classification, or None to let the LLM decide
PreCheck(a) ==
    LET combined_text == CombinedText(a)
        metric_name   == ExtractMetricName(a)
    IN  IF AnyIn(app_keywords, combined_text)
        THEN (IF IsApplicationService(a) THEN Cat_APP ELSE PyNone)
        ELSE IF metric_name # <<>> /\ AnyIn(infra_metric_names, Lower(metric_name))
        THEN (IF IsPlatformService(a) THEN Cat_INFRA ELSE PyNone)
        ELSE IF AnyIn(database_keywords, combined_text) THEN Cat_DATABASE
        ELSE IF AnyIn(network_keywords, combined_text) THEN Cat_NETWORK
        ELSE IF AnyIn(infra_keywords, combined_text)
        THEN (IF IsPlatformService(a) THEN Cat_INFRA ELSE PyNone)
        ELSE PyNone

\* classification.strip().upper().replace(".", "").replace(":", "")
NormalizeLabel(text) ==
    Replace(Replace(Upper(Strip(text)), ".", <<>>), ":", <<>>)

\* "1. Try LLM Classification": llm is what triage_chain.ainvoke returns or raises
AfterLlm(llm) == IF llm.ok THEN NormalizeLabel(llm.val) ELSE Cat_UNKNOWN

KeywordFallback_ungated(a) ==
    LET combined_text == CombinedText(a)
        metric_name   == ExtractMetricName(a)
    IN  IF AnyIn(app_keywords, combined_text) THEN Cat_APP
        ELSE IF AnyIn(database_keywords, combined_text) THEN Cat_DATABASE
        ELSE IF metric_name # <<>> /\ AnyIn(infra_metric_names, Lower(metric_name))
        THEN Cat_INFRA
        ELSE IF AnyIn(network_keywords, combined_text) THEN Cat_NETWORK
        ELSE Cat_APP

\* "2. Heuristic Validation": the keyword fallback for an invalid category
KeywordFallback(a) ==
    LET combined_text == CombinedText(a)
        metric_name   == ExtractMetricName(a)
        ms            == Lower(a.monitoringService)
    IN  IF AnyIn(app_keywords, combined_text) /\ Contains(ms, Str_application)
        THEN Cat_APP
        ELSE IF AnyIn(database_keywords, combined_text) THEN Cat_DATABASE
        ELSE IF metric_name # <<>> /\ AnyIn(infra_metric_names, Lower(metric_name))
        THEN (IF Contains(ms, Str_platform) THEN Cat_INFRA ELSE Cat_APP)
        ELSE IF AnyIn(network_keywords, combined_text) THEN Cat_NETWORK
        ELSE IF Contains(ms, Str_application) THEN Cat_APP
        ELSE Cat_APP

Classify_unvalidated(a, llm) ==
    LET forced == PreCheck(a)
    IN  IF forced = PyNone THEN AfterLlm(llm) ELSE forced

\* the classification triage_node returns, given the LLM's behaviour if asked
Classify(a, llm) ==
    LET forced == PreCheck(a)
        c      == IF forced = PyNone THEN AfterLlm(llm) ELSE forced
    IN  IF c \notin valid_categories THEN KeywordFallback(a) ELSE c

(***************************************************************************)
(* app/graph/workflow.py: the conditional edge after triage                *)
(***************************************************************************)
Str_SQL == <<"S","Q","L">>

Str_Database == <<"D","a","t","a","b","a","s","e">>

Str_Application == <<"A","p","p","l","i","c","a","t","i","o","n">>

Str_App == <<"A","p","p">>

Svc_Platform == <<"P","l","a","t","f","o","r","m">>

Svc_Infrastructure == <<"I","n","f","r","a","s","t","r","u","c","t","u","r","e">>

route_alert_labels_only(cat, a) ==
    IF cat = PyNone \/ cat = <<>>
    THEN IF Contains(a.alertRule, Str_SQL) \/ Contains(a.alertRule, Str_Database)
         THEN "investigate_db"
         ELSE IF Contains(a.alertRule, Str_Application) \/ Contains(a.alertRule, Str_App)
         THEN "investigate_app"
         ELSE IF a.monitoringService \in {Svc_Platform, Svc_Infrastructure}
         THEN "investigate_infra"
         ELSE "investigate_app"
    ELSE IF Contains(cat, Cat_INFRA) THEN "investigate_infra"
    ELSE IF Contains(cat, Cat_DATABASE) THEN "investigate_db"
    ELSE IF Contains(cat, Cat_NETWORK) THEN "investigate_network"
    ELSE "investigate_app"

route_alert(cat, a) ==
    IF cat = PyNone \/ cat = <<>>
    THEN IF Contains(a.alertRule, Str_SQL) \/ Contains(a.alertRule, Str_Database)
         THEN "investigate_db"
         ELSE IF Contains(a.alertRule, Str_Application) \/ Contains(a.alertRule, Str_App)
         THEN "investigate_app"
         ELSE IF a.monitoringService \in {Svc_Platform, Svc_Infrastructure}
         THEN "investigate_infra"
         ELSE "investigate_app"
    ELSE IF Contains(Upper(cat), Cat_INFRA) THEN "investigate_infra"
    ELSE IF Contains(Upper(cat), Cat_DATABASE) \/ Contains(Upper(cat), Str_SQL)
    THEN "investigate_db"
    ELSE IF Contains(Upper(cat), Cat_NETWORK) THEN "investigate_network"
    ELSE "investigate_app"

(***************************************************************************)
(* Inputs                                                                  *)
(***************************************************************************)
\* longest resource name enumerated exhaustively over NameAlphabet
MaxNameLen == 2

NameAlphabet ==
    {"a", "Z", "0", ".", "_", "/", " ", "-", "\t", "|", "\\", "\n", "\r", "*", "\"", ";"}

Name_Unknown == <<"U","n","k","n","o","w","n">>

Name_UNKNOWN == <<"U","N","K","N","O","W","N">>

Name_uNkNoWn == <<"u","N","k","N","o","W","n">>

Name_web == <<"w","e","b","-","a","p","p","_","1",".","0">>

Name_long_ok == [i \in 1..MAX_RESOURCE_NAME_LENGTH |-> "a"]

Name_too_long == [i \in 1..(MAX_RESOURCE_NAME_LENGTH + 1) |-> "a"]

ResourceNames ==
    UNION {[1..n -> NameAlphabet] : n \in 0..MaxNameLen}
    \cup {Str_unknown, Name_Unknown, Name_UNKNOWN, Name_uNkNoWn, Name_web,
          Name_long_ok, Name_too_long}

Key_APP_FAILURES == <<"A","P","P","_","F","A","I","L","U","R","E","S">>

Key_app_impact_analysis == <<"a","p","p","_","i","m","p","a","c","t","_","a","n","a","l","y","s","i","s">>

Key_app_patterns == <<"a","p","p","_","p","a","t","t","e","r","n","s">>

Key_dependency_failures == <<"d","e","p","e","n","d","e","n","c","y","_","f","a","i","l","u","r","e","s">>

Key_recent_changes == <<"r","e","c","e","n","t","_","c","h","a","n","g","e","s">>

Key_sql_container == <<"s","q","l"," ","c","o","n","t","a","i","n","e","r">>

Key_my_sql == <<"m","y","_","S","q","l">>

Key_xyz == <<"x","y","z">>

TemplateKeys ==
    {Key_container_logs, Key_app_failures, Key_sql_errors, Key_APP_FAILURES,
     Key_app_impact_analysis, Key_app_patterns, Key_dependency_failures,
     Key_recent_changes, Key_sql_container, Key_my_sql, Key_xyz, <<>>}

Svc_ApplicationInsights == <<"A","p","p","l","i","c","a","t","i","o","n"," ","I","n","s","i","g","h","t","s">>

Svc_LogAlerts == <<"L","o","g"," ","A","l","e","r","t","s"," ","V","2">>

Rule_SqlDtu == <<"S","Q","L"," ","D","T","U"," ","e","x","c","e","e","d","e","d">>

Rule_HighCpu == <<"H","i","g","h"," ","C","P","U"," ","U","s","a","g","e">>

Rule_DbTimeout == <<"D","B"," ","t","i","m","e","o","u","t">>

Rule_DnsSql == <<"D","N","S"," ","f","a","i","l","i","n","g"," ","f","o","r"," ","s","q","l">>

Rule_Firewall == <<"F","i","r","e","w","a","l","l"," ","d","r","o","p","s">>

Rule_VmDown == <<"V","M"," ","d","o","w","n">>

Rule_Latency == <<"L","a","t","e","n","c","y">>

Rule_Http500 == <<"H","T","T","P"," ","5","0","0">>

Desc_SlowDns == <<"s","l","o","w"," ","d","n","s">>

Metric_Cpu == <<"C","p","u","P","e","r","c","e","n","t","a","g","e">>

Metric_Requests == <<"R","e","q","u","e","s","t","s">>

Llm_infra_dot == <<" ","i","n","f","r","a",".","\n">>

Llm_App_colon == <<"C","a","t","e","g","o","r","y",":"," ","A","p","p">>

RuleNames ==
    {Rule_SqlDtu, Rule_HighCpu, Rule_DbTimeout, Rule_DnsSql, Rule_Firewall,
     Rule_VmDown, Rule_Latency, Rule_Http500}

Descriptions == {<<>>, Desc_SlowDns}

NoCondition == [present |-> FALSE, metricName |-> <<>>, allOf |-> <<>>]

Conditions ==
    {NoCondition,
     [present |-> TRUE, metricName |-> Metric_Cpu, allOf |-> <<>>],
     [present |-> TRUE, metricName |-> <<>>, allOf |-> <<Metric_Requests>>]}

MonitoringServices == {Svc_Platform, Svc_ApplicationInsights, Svc_LogAlerts}

Tgt_prefix ==
    <<"/","s","u","b","s","c","r","i","p","t","i","o","n","s","/","s","1",
      "/","r","e","s","o","u","r","c","e","G","r","o","u","p","s","/","r","g","1",
      "/","p","r","o","v","i","d","e","r","s","/","M","i","c","r","o","s","o","f","t",".","A","p","p",
      "/","c","o","n","t","a","i","n","e","r","A","p","p","s","/">>

Name_web1 == <<"w","e","b","1">>

Name_bad == <<"w","e","b",";","1">>

\* the alertTargetIDs lists: none, a well-formed id, an id ending in a slash,
\* an id whose last segment has a character outside the whitelist
TargetLists ==
    {<<>>, <<Tgt_prefix \o Name_web1>>, <<Tgt_prefix>>, <<Tgt_prefix \o Name_bad>>}

\* what triage_chain.ainvoke does: a label, a decorated label, other text, or an error
LlmOutcomes ==
    {Returned(Cat_INFRA), Returned(Cat_DATABASE), Returned(Cat_NETWORK), Returned(Cat_APP),
     Returned(Llm_infra_dot), Returned(Llm_App_colon), Returned(<<>>),
     Raised("Exception")}

IdleAlert ==
    [alertRule |-> <<>>, description |-> <<>>, condition |-> NoCondition,
     monitoringService |-> <<>>, alertTargetIDs |-> <<>>]

TriageAlerts ==
    [alertRule : RuleNames, description : Descriptions, condition : Conditions,
     monitoringService : MonitoringServices,
     alertTargetIDs : {<<Tgt_prefix \o Name_web1>>}]

(***************************************************************************)
(* State                                                                   *)
(***************************************************************************)
VARIABLES
    alert,                \* the AzureAlertData of the request
    pc,                   \* the node of the graph to run next, "END", or "raised"
    classification,       \* AgentState.classification
    investigation_steps,  \* AgentState.investigation_steps
    final_report,         \* AgentState.final_report
    llm_calls,            \* number of triage_chain.ainvoke calls made
    llm_out,              \* what the triage LLM call did, NotRun if not called
    metric_calls,         \* metric names the nodes requested from the metric source
    metric_out,           \* what the metric source did on each fetch of infra_node
    metrics_report,       \* infra_node's metrics_report
    needs_logs,           \* infra_node's needs_logs
    template_calls,       \* the get_template calls made by the nodes, with their outcome
    query_log,            \* the queries handed to log_tool.run_query
    trace,                \* the nodes that started, in order
    abort_cause,          \* the call whose exception left graph.ainvoke, "" if none
    template_key,         \* input of a get_template call
    resource_name,        \* input of a get_template / sanitize_resource_name call
    sanitized,            \* result of sanitize_resource_name(resource_name)
    rendered,             \* result of get_template(template_key, resource_name)
    graph,                \* main.py's module-level graph: "unbuilt", "compiled" or "None"
    startup_log,          \* the error lines main.py logged while building the graph
    alert_id,             \* payload.data.essentials.alertId of the request
    state_created,        \* azure_webhook has built its initial_state
    http_status,          \* status of the webhook's answer, 0 while there is none
    persisted,            \* the entities create_entity stored in the alert table
    response,             \* the body azure_webhook returned, <<>> while there is none
    fetch_status,         \* status of get_alert's answer, 0 while there is none
    peer                  \* a second graph.ainvoke waiting on the event loop

vars == <<alert, pc, classification, investigation_steps, final_report,
          llm_calls, llm_out, metric_calls, metric_out, metrics_report, needs_logs,
          template_calls, query_log, trace, abort_cause,
          template_key, resource_name, sanitized, rendered,
          graph, startup_log, alert_id, state_created, http_status, persisted, response,
          fetch_status, peer>>

webVars == <<graph, startup_log, alert_id, state_created, http_status, persisted, response,
             fetch_status>>

gateVars == <<metric_out, metrics_report>>

obsVars == <<llm_calls, llm_out, metric_calls, gateVars, needs_logs, template_calls,
             query_log, trace, abort_cause>>

stateVars == <<classification, investigation_steps, final_report>>

renderVars == <<template_key, resource_name, sanitized, rendered>>

Step(kind, arg) == [kind |-> kind, arg |-> arg]

\* initial_state of azure_webhook
InitialState ==
    /\ investigation_steps = <<>>
    /\ final_report = PyNone
    /\ classification = PyNone
    /\ llm_calls = 0
    /\ llm_out = NotRun
    /\ metric_calls = <<>>
    /\ metric_out = <<>>
    /\ metrics_report = <<>>
    /\ needs_logs = FALSE
    /\ template_calls = <<>>
    /\ query_log = <<>>
    /\ trace = <<>>
    /\ abort_cause = ""

\* no second invocation is waiting
NoPeer ==
    [alert |-> IdleAlert, pc |-> "absent", classification |-> PyNone,
     investigation_steps |-> <<>>, final_report |-> PyNone, llm_calls |-> 0,
     llm_out |-> NotRun, metric_calls |-> <<>>, metric_out |-> <<>>,
     metrics_report |-> <<>>, needs_logs |-> FALSE, template_calls |-> <<>>,
     query_log |-> <<>>, trace |-> <<>>, abort_cause |-> ""]

\* graph.ainvoke called directly on a compiled graph, outside the web service
WebIdle ==
    /\ graph = "compiled"
    /\ startup_log = <<>>
    /\ alert_id = <<>>
    /\ state_created = TRUE
    /\ http_status = 0
    /\ persisted = <<>>
    /\ response = <<>>
    /\ fetch_status = 0

RenderIdle ==
    /\ template_key = <<>>
    /\ resource_name = <<>>
    /\ sanitized = NotRun
    /\ rendered = NotRun
    /\ WebIdle
    /\ peer = NoPeer

(***************************************************************************)
(* The template engine called on its own                                   *)
(***************************************************************************)
InitRender ==
    /\ alert = IdleAlert
    /\ pc = "render"
    /\ InitialState
    /\ template_key \in TemplateKeys
    /\ resource_name \in ResourceNames
    /\ sanitized = NotRun
    /\ rendered = NotRun
    /\ WebIdle
    /\ peer = NoPeer

Sanitize ==
    /\ pc = "render"
    /\ sanitized = NotRun
    /\ sanitized' = sanitize_resource_name(resource_name)
    /\ UNCHANGED <<alert, webVars, peer, pc, stateVars, obsVars, template_key, resource_name, rendered>>

Render ==
    /\ pc = "render"
    /\ rendered = NotRun
    /\ rendered' = get_template(template_key, resource_name)
    /\ UNCHANGED <<alert, webVars, peer, pc, stateVars, obsVars, template_key, resource_name, sanitized>>

NextRender == Sanitize \/ Render

SpecRender == InitRender /\ [][NextRender]_vars

(***************************************************************************)
(* triage_node, followed by the conditional edge route_alert               *)
(***************************************************************************)
triage_node_always_calls ==
    /\ pc = "triage"
    /\ \E llm \in LlmOutcomes :
         LET c == Classify(alert, llm)
         IN  /\ classification' = c
             /\ llm_calls' = llm_calls + 1
             /\ llm_out' = llm
             /\ investigation_steps' = investigation_steps \o
                    <<Step("Triaged as",
                           c \o <<" (Resource: ">>
                             \o ResourceType(FirstTarget(alert, <<>>)) \o <<")">>)>>
             /\ pc' = route_alert(c, alert)
    /\ trace' = Append(trace, "triage")
    /\ UNCHANGED <<alert, webVars, peer, final_report, renderVars, metric_calls, gateVars, needs_logs,
                   template_calls, query_log, abort_cause>>

triage_node ==
    /\ pc = "triage"
    /\ \E llm \in LlmOutcomes :
         LET called == PreCheck(alert) = PyNone
             c      == Classify(alert, llm)
         IN  /\ classification' = c
             /\ llm_calls' = llm_calls + (IF called THEN 1 ELSE 0)
             /\ llm_out' = IF called THEN llm ELSE NotRun
             /\ investigation_steps' = investigation_steps \o
                    <<Step("Triaged as",
                           c \o <<" (Resource: ">>
                             \o ResourceType(FirstTarget(alert, <<>>)) \o <<")">>)>>
             /\ pc' = route_alert(c, alert)
    /\ trace' = Append(trace, "triage")
    /\ UNCHANGED <<alert, webVars, peer, final_report, renderVars, metric_calls, gateVars, needs_logs,
                   template_calls, query_log, abort_cause>>

InitTriage ==
    /\ alert \in TriageAlerts
    /\ pc = "triage"
    /\ InitialState
    /\ RenderIdle

SpecTriage == InitTriage /\ [][triage_node]_vars

(***************************************************************************)
(* The conditional edge called on its own, for any state.classification    *)
(***************************************************************************)
Cat_infra_lower == <<"i","n","f","r","a">>

Cat_Database_dot == <<"D","a","t","a","b","a","s","e",".">>

Cat_network_issue == <<"n","e","t","w","o","r","k"," ","i","s","s","u","e">>

Cat_sql_server == <<"s","q","l"," ","s","e","r","v","e","r">>

Cat_INFRA_DATABASE == <<"I","N","F","R","A","/","D","A","T","A","B","A","S","E">>

Rule_AppServiceDown == <<"A","p","p"," ","S","e","r","v","i","c","e"," ","d","o","w","n">>

Rule_DatabaseFull == <<"D","a","t","a","b","a","s","e"," ","f","u","l","l">>

\* values of state.get("classification", ""): unset, empty, labels, decorated text
RouteClassifications ==
    {PyNone, <<>>, Cat_INFRA, Cat_DATABASE, Cat_NETWORK, Cat_APP, Cat_UNKNOWN,
     Cat_infra_lower, Cat_Database_dot, Cat_network_issue, Cat_sql_server,
     Cat_INFRA_DATABASE, Str_SQL}

RouteAlerts ==
    [alertRule : RuleNames \cup {Rule_AppServiceDown, Rule_DatabaseFull},
     description : {<<>>}, condition : {NoCondition},
     monitoringService : MonitoringServices \cup {Svc_Infrastructure},
     alertTargetIDs : {<<Tgt_prefix \o Name_web1>>}]

InitRoute ==
    /\ alert \in RouteAlerts
    /\ pc = "route"
    /\ InitialState
    /\ RenderIdle

\* a state update that sets classification, followed by the conditional edge
Route ==
    /\ pc = "route"
    /\ \E cat \in RouteClassifications :
         /\ classification' = cat
         /\ pc' = route_alert(cat, alert)
    /\ UNCHANGED <<alert, webVars, peer, investigation_steps, final_report, obsVars, renderVars>>

SpecRoute == InitRoute /\ [][Route]_vars

(***************************************************************************)
(* app/tools/metrics.py                                                    *)
(***************************************************************************)
Str_Percentage == <<"P","e","r","c","e","n","t","a","g","e">>

Str_Bytes == <<"B","y","t","e","s">>

Str_Memory == <<"M","e","m","o","r","y">>

Str_NanoCores == <<"N","a","n","o","C","o","r","e","s">>

Metric_Memory == <<"M","e","m","o","r","y","P","e","r","c","e","n","t","a","g","e">>

Metric_Restarts == <<"R","e","s","t","a","r","t","C","o","u","n","t">>

Metric_dtu == <<"d","t","u","_","c","o","n","s","u","m","p","t","i","o","n","_","p","e","r","c","e","n","t">>

Metric_cpu_percent == <<"c","p","u","_","p","e","r","c","e","n","t">>

Metric_storage == <<"s","t","o","r","a","g","e","_","p","e","r","c","e","n","t">>

DigitChars == <<"0","1","2","3","4","5","6","7","8","9">>

\* str(n) for a natural number n
RECURSIVE IntChars(_)
IntChars(n) ==
    IF n < 10 THEN <<DigitChars[n + 1]>>
    ELSE IntChars(n \div 10) \o <<DigitChars[(n % 10) + 1]>>

\* f"{value:.2f}": value is held in thousandths and rounded to hundredths
Fixed2(value) ==
    LET h == (value + 5) \div 10
    IN  IntChars(h \div 100) \o <<".", DigitChars[((h \div 10) % 10) + 1], DigitChars[(h % 10) + 1]>>

\* f"{value:.4f}" of a value in thousandths
Fixed4(value) ==
    IntChars(value \div 1000)
    \o <<".", DigitChars[((value \div 100) % 10) + 1], DigitChars[((value \div 10) % 10) + 1],
         DigitChars[(value % 10) + 1], "0">>

\* AzureMetricsTool._format_value
format_value(metric_name, value) ==
    IF Contains(metric_name, Str_Percentage) THEN Fixed2(value) \o <<"%">>
    ELSE IF Contains(metric_name, Str_Bytes) \/ Contains(metric_name, Str_Memory)
    THEN (IF value > 1024 * 1024 * 1024 * 1000
          THEN Fixed2(value \div (1024 * 1024 * 1024)) \o <<" GiB">>
          ELSE Fixed2(value \div (1024 * 1024)) \o <<" MiB">>)
    ELSE IF Contains(metric_name, Str_NanoCores)
    THEN Fixed4(value \div 1000000000) \o <<" Cores">>
    ELSE Fixed2(value)

\* what self.client.metrics.list does: it raises, or returns no metric, no
\* recorded series, only null points, or points whose last average is latest
\* (thousandths) and whose mean is average
MetricReading(latest) == [kind |-> "value", latest |-> latest, average |-> latest]

MetricFailure(kind) == [kind |-> kind, latest |-> 0, average |-> 0]

\* AzureMetricsTool.get_metric, made of the tokens the callers look for
get_metric(metric_name, minutes, outcome) ==
    CASE outcome.kind = "raise" ->
            <<"Error fetching", " ">> \o metric_name \o <<": ", "<exception text>">>
      [] outcome.kind = "novalue" -> <<"No data found", " for ">> \o metric_name
      [] outcome.kind = "norecorded" -> <<"No recorded values", " for ">> \o metric_name
      [] outcome.kind = "nulls" -> metric_name \o <<": ", "No data points", " (null)">>
      [] OTHER ->
            metric_name \o <<" (Last ">> \o IntChars(minutes) \o <<"m):", "\n", " ", " ">>
            \o <<"Current:", " ">> \o format_value(metric_name, outcome.latest)
            \o <<"\n", " ", " ", "Average: ">> \o format_value(metric_name, outcome.average)

(***************************************************************************)
(* app/tools/monitor.py: what AzureLogTool.run_query returns               *)
(***************************************************************************)
NoLogsFound == <<"No logs found", ".">>

ExecutionError == <<"Execution Error: ", "<exception text>">>

CountRow(n) == <<"{'", "Count", "': ">> \o IntChars(n) \o <<"}">>

LogRows == <<"{'TimeGenerated': <time>, 'Message': <text>}">>

LogOutcomes == {NoLogsFound, ExecutionError, LogRows}

CountOutcomes == {NoLogsFound, ExecutionError, CountRow(0), CountRow(3), CountRow(10)}

(***************************************************************************)
(* app/graph/nodes/infra.py                                                *)
(***************************************************************************)
error_patterns == {"Error fetching", "No data found", "No recorded values", "No data points"}

is_valid_metric_response(metric_str) ==
    /\ metric_str # <<>>
    /\ ~\E i \in DOMAIN metric_str : metric_str[i] \in error_patterns
    /\ \E i \in DOMAIN metric_str : metric_str[i] = "Current:"

\* float(val_str) in hundredths; -100 stands for the -1.0 of a failed parse
ParseFloat(chars) ==
    LET dots == {i \in DOMAIN chars : chars[i] = "."}
        DigitVal(c) == (CHOOSE d \in 1..10 : DigitChars[d] = c) - 1
        RECURSIVE Num(_)
        Num(cs) == IF cs = <<>> THEN 0
                   ELSE 10 * Num(SubSeq(cs, 1, Len(cs) - 1)) + DigitVal(cs[Len(cs)])
    IN  IF \/ chars = <<>>
           \/ Cardinality(dots) > 1
           \/ \E i \in DOMAIN chars : chars[i] # "." /\ chars[i] \notin Digits
           \/ Len(chars) = Cardinality(dots)
        THEN -100
        ELSE LET d    == IF dots = {} THEN Len(chars) + 1 ELSE CHOOSE i \in dots : TRUE
                 frac == SubSeq(chars, d + 1, Len(chars)) \o <<"0", "0">>
             IN  100 * Num(SubSeq(chars, 1, d - 1)) + Num(SubSeq(frac, 1, 2))

parse_metric_value(metric_str) ==
    LET marks == {i \in DOMAIN metric_str : metric_str[i] = "Current:"}
    IN  IF marks = {} THEN -100
        ELSE LET at   == CHOOSE i \in marks : \A j \in marks : i <= j
                 ends == {i \in DOMAIN metric_str : i > at /\ metric_str[i] = "\n"}
                 stop == IF ends = {} THEN Len(metric_str) + 1
                         ELSE CHOOSE i \in ends : \A j \in ends : i <= j
                 val  == Strip(SubSeq(metric_str, at + 1, stop - 1))
                 bare == Replace(Replace(Replace(Replace(val, "%", <<>>), " Cores", <<>>),
                                         " GiB", <<>>), " MiB", <<>>)
             IN  ParseFloat(bare)

Exceeds_at_or_above(metric_str, threshold) ==
    /\ is_valid_metric_response(metric_str)
    /\ parse_metric_value(metric_str) >= 0
    /\ parse_metric_value(metric_str) >= threshold

Exceeds_unless_valid_and_low(metric_str, threshold) ==
    \/ ~is_valid_metric_response(metric_str)
    \/ parse_metric_value(metric_str) > threshold

\* `val >= 0 and val > threshold` on a valid response (hundredths)
Exceeds(metric_str, threshold) ==
    /\ is_valid_metric_response(metric_str)
    /\ parse_metric_value(metric_str) >= 0
    /\ parse_metric_value(metric_str) > threshold

\* raw readings in thousandths
MetricValues == {0, 95000}

\* the metric source in the pipeline of one alert
MetricOutcomes ==
    {MetricFailure("raise")} \cup {MetricReading(v) : v \in MetricValues}

RequestOutcomes == {MetricFailure("raise"), MetricReading(0)}

MetricFailureKinds == {"raise", "novalue", "norecorded", "nulls"}

\* raw readings around the thresholds, in thousandths
GateValues == {0, 4, 1000, 40000, 90000, 90004, 90010, 95000}

\* the metric source when the gate is examined on its own
GateOutcomes ==
    {MetricFailure(k) : k \in MetricFailureKinds} \cup {MetricReading(v) : v \in GateValues}

GateRequestOutcomes ==
    {MetricFailure("raise"), MetricFailure("nulls"), MetricReading(0), MetricReading(95000)}

\* what an LLM chain's ainvoke does: returns text or raises
ChainOutcomes == {Returned(<<"<generated text>">>), Raised("Exception")}

Llm_SQL_Errors == <<" ","S","Q","L","_","E","r","r","o","r","s","\n">>

SelectorOutcomes ==
    {Returned(Key_container_logs), Returned(Llm_SQL_Errors), Returned(Key_xyz),
     Raised("Exception")}

\* a get_template call: its arguments, whether it returned, and how many
\* metric fetches had been made when it was called
TemplateCall(node, key, name, fetched) ==
    [node |-> node, key |-> key, name |-> name, ok |-> get_template(key, name).ok,
     fetched |-> fetched]

GatedMetrics == <<Metric_Cpu, Metric_Memory, Metric_Restarts, Metric_Requests>>

MetricsFetched_until_failure(resource_id, outs) ==
    IF resource_id = Str_Unknown THEN <<>>
    ELSE LET failed == {i \in 1..4 : outs[i].kind # "value"}
             last   == IF failed = {} THEN 4
                       ELSE CHOOSE i \in failed : \A j \in failed : i <= j
         IN  SubSeq(GatedMetrics, 1, last)

\* "A. Check Metrics": the metrics requested, in order, given what the metric
\* source does on each fetch
MetricsFetched(resource_id, outs) ==
    IF resource_id # Str_Unknown THEN GatedMetrics ELSE <<>>

infra_steps_always_ran(needs, key) ==
    <<Step("Checked Metrics", <<>>), Step("Ran Template:", key)>>

\* the steps infra_node adds to the trail
infra_steps(needs, key) ==
    IF needs
    THEN <<Step("Checked Metrics", <<>>), Step("Ran Template:", key)>>
    ELSE <<Step("Checked Metrics", <<>>), Step("Skipped Logs (Healthy)", <<>>)>>

\* infra_node, with the behaviours of its collaborators drawn from the given
\* sets: the metric source on the three gated fetches (GatedO) and on the
\* Requests fetch (ReqO), the selector chain (SelO), the log query (LogO)
InfraNode(GatedO, ReqO, SelO, LogO) ==
    /\ pc = "investigate_infra"
    /\ \E cpu \in GatedO, mem \in GatedO, rst \in GatedO, req \in ReqO,
          sel \in SelO, logs \in LogO, analysis \in ChainOutcomes :
         LET resource_id == FirstTarget(alert, Str_Unknown)
             rname       == IF Contains(resource_id, <<"/">>)
                            THEN LastSegment(resource_id) ELSE resource_id
             checked     == resource_id # Str_Unknown
             cpu_str     == get_metric(Metric_Cpu, 15, cpu)
             mem_str     == get_metric(Metric_Memory, 15, mem)
             rst_str     == get_metric(Metric_Restarts, 15, rst)
             needs       == /\ checked
                            /\ \/ Exceeds(cpu_str, 9000)
                               \/ Exceeds(mem_str, 9000)
                               \/ Exceeds(rst_str, 0)
             key         == IF sel.ok THEN Lower(Strip(sel.val)) ELSE <<>>
             query       == get_template(key, rname)
             outs        == <<cpu, mem, rst, req>>
             fetches     == MetricsFetched(resource_id, outs)
             steps       == infra_steps(needs, key)
         IN  /\ metric_calls' = metric_calls \o fetches
             /\ metric_out' = IF checked THEN outs ELSE <<>>
             /\ metrics_report' =
                    [i \in 1..Len(fetches) |-> get_metric(fetches[i], 15, outs[i])]
             /\ needs_logs' = needs
             /\ template_calls' =
                    IF needs
                    THEN Append(template_calls,
                                TemplateCall("infra", key, rname, Len(metric_calls \o fetches)))
                    ELSE template_calls
             /\ query_log' = IF needs /\ query.ok
                             THEN Append(query_log, [node |-> "infra", query |-> query.val])
                             ELSE query_log
             /\ IF analysis.ok
                THEN /\ investigation_steps' = investigation_steps \o steps
                     /\ final_report' = analysis.val
                     /\ pc' = "verify"
                     /\ abort_cause' = abort_cause
                ELSE /\ pc' = "raised"
                     /\ abort_cause' = "analysis_chain"
                     /\ UNCHANGED <<investigation_steps, final_report>>
    /\ trace' = Append(trace, "investigate_infra")
    /\ UNCHANGED <<alert, webVars, peer, classification, llm_calls, llm_out, renderVars>>

infra_node == InfraNode(MetricOutcomes, RequestOutcomes, SelectorOutcomes, LogOutcomes)

(***************************************************************************)
(* infra_node on its own, entered as triage leaves an INFRA alert          *)
(***************************************************************************)
GateSelectorOutcomes == {Returned(Key_container_logs), Raised("Exception")}

GateAlerts ==
    [alertRule : {Rule_HighCpu}, description : {<<>>},
     condition : {[present |-> TRUE, metricName |-> Metric_Cpu, allOf |-> <<>>]},
     monitoringService : {Svc_Platform},
     alertTargetIDs : {<<>>, <<Tgt_prefix \o Name_web1>>, <<Tgt_prefix \o Name_bad>>}]

InitGate ==
    /\ alert \in GateAlerts
    /\ pc = "investigate_infra"
    /\ classification = Classify(alert, NotRun)
    /\ investigation_steps =
           <<Step("Triaged as",
                  Classify(alert, NotRun) \o <<" (Resource: ">>
                    \o ResourceType(FirstTarget(alert, <<>>)) \o <<")">>)>>
    /\ final_report = PyNone
    /\ llm_calls = 0
    /\ llm_out = NotRun
    /\ metric_calls = <<>>
    /\ metric_out = <<>>
    /\ metrics_report = <<>>
    /\ needs_logs = FALSE
    /\ template_calls = <<>>
    /\ query_log = <<>>
    /\ trace = <<"triage">>
    /\ abort_cause = ""
    /\ RenderIdle

infra_gate == InfraNode(GateOutcomes, GateRequestOutcomes, GateSelectorOutcomes, {LogRows})

SpecGate == InitGate /\ [][infra_gate]_vars

(***************************************************************************)
(* app/graph/nodes/database.py                                             *)
(***************************************************************************)
db_node ==
    /\ pc = "investigate_db"
    /\ metric_calls' = metric_calls \o
           (IF alert.alertTargetIDs # <<>> /\ alert.alertTargetIDs[1] # <<>>
            THEN <<Metric_dtu, Metric_cpu_percent, Metric_storage>>
            ELSE <<>>)
    /\ \E report \in ChainOutcomes :
         IF report.ok
         THEN /\ investigation_steps' = investigation_steps \o
                     <<Step("Checked SQL Metrics (DTU, CPU)", <<>>)>>
              /\ final_report' = report.val
              /\ pc' = "verify"
              /\ abort_cause' = abort_cause
         ELSE /\ pc' = "raised"
              /\ abort_cause' = "report_chain"
              /\ UNCHANGED <<investigation_steps, final_report>>
    /\ trace' = Append(trace, "investigate_db")
    /\ UNCHANGED <<alert, webVars, peer, classification, llm_calls, llm_out, gateVars, needs_logs,
                   template_calls, query_log, renderVars>>

(***************************************************************************)
(* app/graph/nodes/app.py                                                  *)
(***************************************************************************)
AppSuiteKeys ==
    <<Key_app_impact_analysis, Key_app_patterns, Key_dependency_failures, Key_recent_changes>>

app_node ==
    /\ pc = "investigate_app"
    /\ \E analysis \in ChainOutcomes :
         LET resource_id == FirstTarget(alert, Str_Unknown)
             rname       == IF Contains(resource_id, <<"/">>)
                            THEN LastSegment(resource_id) ELSE resource_id
             failing     == {i \in 1..4 : ~get_template(AppSuiteKeys[i], rname).ok}
             made        == IF failing = {} THEN 4
                            ELSE CHOOSE i \in failing : \A j \in failing : i <= j
         IN  /\ template_calls' = template_calls \o
                   [i \in 1..made |-> TemplateCall("app", AppSuiteKeys[i], rname, Len(metric_calls))]
             /\ IF failing # {}
                THEN /\ pc' = "raised"
                     /\ abort_cause' = "get_template"
                     /\ UNCHANGED <<investigation_steps, final_report, query_log>>
                ELSE /\ query_log' = query_log \o
                         [i \in 1..4 |-> [node |-> "app",
                                          query |-> get_template(AppSuiteKeys[i], rname).val]]
                     /\ IF analysis.ok
                        THEN /\ investigation_steps' = investigation_steps \o
                                   <<Step("Ran Impact Analysis (ProblemId grouping)", <<>>),
                                     Step("Ran Intelligent Pattern Recognition", <<>>),
                                     Step("Checked Dependency Failures", <<>>),
                                     Step("Checked Recent Configuration Changes", <<>>)>>
                             /\ final_report' = analysis.val
                             /\ pc' = "verify"
                             /\ abort_cause' = abort_cause
                        ELSE /\ pc' = "raised"
                             /\ abort_cause' = "analysis_chain"
                             /\ UNCHANGED <<investigation_steps, final_report>>
    /\ trace' = Append(trace, "investigate_app")
    /\ UNCHANGED <<alert, webVars, peer, classification, llm_calls, llm_out, metric_calls, gateVars,
                   needs_logs, renderVars>>

(***************************************************************************)
(* app/graph/workflow.py: network_placeholder_node                         *)
(***************************************************************************)
\* variant: the placeholder returns only its own step
network_placeholder_node_resets ==
    /\ pc = "investigate_network"
    /\ investigation_steps' =
           <<Step("Network investigation skipped (pending implementation)", <<>>)>>
    /\ final_report' = <<"Network investigation pending implementation">>
    /\ pc' = "verify"
    /\ trace' = Append(trace, "investigate_network")
    /\ UNCHANGED <<alert, webVars, peer, classification, llm_calls, llm_out, metric_calls, gateVars,
                   needs_logs, template_calls, query_log, abort_cause, renderVars>>

network_placeholder_node ==
    /\ pc = "investigate_network"
    /\ investigation_steps' = investigation_steps \o
           <<Step("Network investigation skipped (pending implementation)", <<>>)>>
    /\ final_report' = <<"Network investigation pending implementation">>
    /\ pc' = "verify"
    /\ trace' = Append(trace, "investigate_network")
    /\ UNCHANGED <<alert, webVars, peer, classification, llm_calls, llm_out, metric_calls, gateVars,
                   needs_logs, template_calls, query_log, abort_cause, renderVars>>

(***************************************************************************)
(* app/graph/nodes/verify.py                                               *)
(***************************************************************************)
\* the character class of re.compile(r'^[a-zA-Z0-9._/-]+$')
StrictWhitelistChar(c) ==
    \/ \E i \in 1..26 : LowerAZ[i] = c \/ UpperAZ[i] = c
    \/ c \in Digits
    \/ c \in {".", "_", "/", "-"}

validate_and_escape_kql_string(value) ==
    IF value = <<>> \/ Len(value) > 256 THEN Raised("ValueError")
    ELSE LET body == IF value[Len(value)] = "\n"
                     THEN SubSeq(value, 1, Len(value) - 1) ELSE value
         IN  IF body = <<>> \/ \E i \in DOMAIN body : ~StrictWhitelistChar(body[i])
             THEN Raised("ValueError")
             ELSE Returned(<<"\"">> \o Replace(value, "\"", <<"\"", "\"">>) \o <<"\"">>)

CountQuery(table, field_name, safe_resource) ==
    <<"\n", " ", table, "\n", " ", "|", " where TimeGenerated > ago(5m)", "\n", " ",
      "|", " where ", field_name, " has ">> \o safe_resource
    \o <<"\n", " ", "|", " count", "\n", " ">>

verify_node ==
    /\ pc = "verify"
    /\ \E cpu \in MetricOutcomes, mem \in MetricOutcomes, count_result \in CountOutcomes :
         LET cls         == IF classification = PyNone \/ classification = <<>>
                            THEN Cat_UNKNOWN ELSE classification
             has_id      == alert.alertTargetIDs # <<>> /\ alert.alertTargetIDs[1] # <<>>
             rname       == IF has_id THEN LastSegment(alert.alertTargetIDs[1])
                            ELSE Str_Unknown
             safe        == validate_and_escape_kql_string(rname)
             is_sql      == Contains(cls, Str_SQL)
             query       == CountQuery(IF is_sql THEN "AzureDiagnostics" ELSE "AppExceptions",
                                       IF is_sql THEN "Resource" ELSE "AppRoleName",
                                       safe.val)
             status      ==
                 IF Contains(cls, Cat_INFRA) /\ has_id
                 THEN <<"Current Infrastructure Status (5m):", "\n">>
                      \o get_metric(Metric_Cpu, 5, cpu) \o <<"\n">>
                      \o get_metric(Metric_Memory, 5, mem)
                 ELSE IF rname # Str_Unknown
                 THEN (IF ~safe.ok
                       THEN <<"Verification Failed: Invalid resource name - ", "<error text>">>
                       ELSE IF Contains(count_result, <<"No logs found">>)
                       THEN <<"No active errors detected in the last 5 minutes.">>
                       ELSE IF Contains(count_result, <<"0">>)
                               /\ Contains(count_result, <<"Count">>)
                       THEN <<"No active errors detected in the last 5 minutes.">>
                       ELSE <<"Alert Condition matches active logs in last 5m.", "\n",
                              "Result: ">> \o count_result)
                 ELSE <<"Could not verify current status.">>
             ran_query   == ~(Contains(cls, Cat_INFRA) /\ has_id) /\ rname # Str_Unknown /\ safe.ok
         IN  /\ investigation_steps' = Append(investigation_steps, Step("Verification:", status))
             /\ query_log' = IF ran_query
                             THEN Append(query_log, [node |-> "verify", query |-> query,
                                                    result |-> count_result])
                             ELSE query_log
             /\ metric_calls' = metric_calls \o
                   (IF Contains(cls, Cat_INFRA) /\ has_id
                    THEN <<Metric_Cpu, Metric_Memory>> ELSE <<>>)
    /\ pc' = "reporter"
    /\ trace' = Append(trace, "verify")
    /\ UNCHANGED <<alert, webVars, peer, classification, final_report, llm_calls, llm_out, gateVars,
                   needs_logs, template_calls, abort_cause, renderVars>>

(***************************************************************************)
(* app/graph/nodes/reporter.py                                             *)
(***************************************************************************)
StructuredReport == <<"dict", "IncidentReport">>

FallbackReport == <<"dict", "Failed to generate report">>

\* variant: when the report chain fails the raw findings are left in place
reporter_node_keeps_raw ==
    /\ pc = "reporter"
    /\ \E report \in ChainOutcomes :
         final_report' = IF report.ok THEN StructuredReport ELSE final_report
    /\ pc' = "END"
    /\ trace' = Append(trace, "reporter")
    /\ UNCHANGED <<alert, webVars, peer, classification, investigation_steps, llm_calls, llm_out,
                   metric_calls, gateVars, needs_logs, template_calls, query_log,
                   abort_cause, renderVars>>

reporter_node ==
    /\ pc = "reporter"
    /\ \E report \in ChainOutcomes :
         final_report' = IF report.ok THEN StructuredReport ELSE FallbackReport
    /\ pc' = "END"
    /\ trace' = Append(trace, "reporter")
    /\ UNCHANGED <<alert, webVars, peer, classification, investigation_steps, llm_calls, llm_out,
                   metric_calls, gateVars, needs_logs, template_calls, query_log,
                   abort_cause, renderVars>>

(***************************************************************************)
(* The pipeline of one alert: graph.ainvoke(initial_state)                 *)
(***************************************************************************)
AlertShapes ==
    {[alertRule |-> Rule_HighCpu, description |-> <<>>,
      condition |-> [present |-> TRUE, metricName |-> Metric_Cpu, allOf |-> <<>>],
      monitoringService |-> Svc_Platform],
     [alertRule |-> Rule_SqlDtu, description |-> <<>>, condition |-> NoCondition,
      monitoringService |-> Svc_LogAlerts],
     [alertRule |-> Rule_Firewall, description |-> <<>>, condition |-> NoCondition,
      monitoringService |-> Svc_Platform],
     [alertRule |-> Rule_Http500, description |-> <<>>, condition |-> NoCondition,
      monitoringService |-> Svc_ApplicationInsights],
     [alertRule |-> Rule_Latency, description |-> <<>>, condition |-> NoCondition,
      monitoringService |-> Svc_LogAlerts]}

PipelineAlerts ==
    {[alertRule |-> a.alertRule, description |-> a.description, condition |-> a.condition,
      monitoringService |-> a.monitoringService, alertTargetIDs |-> t] :
        a \in AlertShapes, t \in TargetLists}

Init ==
    /\ alert \in PipelineAlerts
    /\ pc = "triage"
    /\ InitialState
    /\ RenderIdle

Next ==
    \/ triage_node
    \/ infra_node
    \/ db_node
    \/ app_node
    \/ network_placeholder_node
    \/ verify_node
    \/ reporter_node

Spec == Init /\ [][Next]_vars

(***************************************************************************)
(* app/main.py: the web service around the graph                           *)
(***************************************************************************)
max_length == 1000

RowKeyInvalidChars == {"/", "\\", "#", "?"}

\* rsplit("/", 1)[-1], re.sub(r'[/\\#?]', '_', ...), truncation to max_length
sanitize_row_key(id) ==
    LET last  == IF Contains(id, <<"/">>) THEN LastSegment(id) ELSE id
        clean == [i \in 1..Len(last) |->
                     IF last[i] \in RowKeyInvalidChars THEN "_" ELSE last[i]]
    IN  IF Len(clean) > max_length THEN SubSeq(clean, 1, max_length) ELSE clean

SafeRowKeyChar(c) ==
    \/ \E i \in 1..26 : LowerAZ[i] = c \/ UpperAZ[i] = c
    \/ c \in Digits
    \/ c \in {"_", "-", "."}

\* bool(re.compile(r'^[a-zA-Z0-9_\-\.]+$').match(row_key)); $ also matches
\* before one trailing newline
validate_row_key(row_key) ==
    LET body == IF row_key # <<>> /\ row_key[Len(row_key)] = "\n"
                THEN SubSeq(row_key, 1, Len(row_key) - 1) ELSE row_key
    IN  body # <<>> /\ \A i \in DOMAIN body : SafeRowKeyChar(body[i])

MaxIdLen == 3

IdAlphabet == {"a", "/", "#", " "}

\* the alertId strings of the payloads
AlertIds == UNION {[1..n -> IdAlphabet] : n \in 0..MaxIdLen}

\* values of uuid.uuid4().hex[:8]
UuidHex == {<<"0","a","1","b","2","c","3","d">>, <<"f","f","f","f","f","f","f","f">>}

\* what get_table_client and create_entity do
TableOutcomes == {"no-client", "stored", "error"}

ServiceAlerts == {a \in PipelineAlerts : a.alertTargetIDs = <<>>}

\* the module body of main.py: graph = build_graph(), or None with an error logged
initialize_workflow_graph ==
    /\ pc = "import"
    /\ \E built \in BOOLEAN :
         /\ graph' = IF built THEN "compiled" ELSE "None"
         /\ startup_log' = IF built THEN startup_log
                           ELSE Append(startup_log, "Failed to initialize workflow graph")
    /\ pc' = "request"
    /\ UNCHANGED <<alert, stateVars, obsVars, renderVars, alert_id, state_created,
                   http_status, persisted, response, fetch_status, peer>>

\* variant: the handler does not test the module-level graph
azure_webhook_unguarded ==
    /\ pc \in {"request", "rejected"}
    /\ \E payload \in ServiceAlerts, id \in AlertIds :
         /\ alert' = payload
         /\ alert_id' = id
    /\ state_created' = TRUE
    /\ classification' = PyNone
    /\ investigation_steps' = <<>>
    /\ final_report' = PyNone
    /\ IF graph = "None"
       THEN pc' = "raised" /\ abort_cause' = "graph.ainvoke"
       ELSE pc' = "triage" /\ abort_cause' = abort_cause
    /\ UNCHANGED <<graph, startup_log, http_status, persisted, response, fetch_status, peer,
                   renderVars, llm_calls, llm_out, metric_calls, gateVars, needs_logs,
                   template_calls, query_log, trace>>

\* azure_webhook up to graph.ainvoke(initial_state)
azure_webhook ==
    /\ pc \in {"request", "rejected"}
    /\ \E payload \in ServiceAlerts, id \in AlertIds :
         /\ alert' = payload
         /\ alert_id' = id
    /\ IF graph = "None"
       THEN /\ http_status' = 503
            /\ pc' = "rejected"
            /\ UNCHANGED <<state_created, stateVars>>
       ELSE /\ state_created' = TRUE
            /\ classification' = PyNone
            /\ investigation_steps' = <<>>
            /\ final_report' = PyNone
            /\ pc' = "triage"
            /\ UNCHANGED http_status
    /\ UNCHANGED <<graph, startup_log, persisted, response, fetch_status, peer, renderVars, obsVars>>

\* variant: the entity is filed under the default partition
azure_webhook_resume_default_partition ==
    /\ pc = "END"
    /\ \E table \in TableOutcomes, hex \in UuidHex :
         LET row_key == sanitize_row_key(alert_id) \o <<"-">> \o hex
             entity  == [PartitionKey |-> Cat_UNKNOWN, RowKey |-> row_key,
                         AlertId |-> alert_id]
         IN  persisted' = IF table = "stored" THEN Append(persisted, entity) ELSE persisted
    /\ response' = <<[classification |-> classification, report |-> final_report,
                      steps |-> investigation_steps]>>
    /\ http_status' = 200
    /\ pc' = "responded"
    /\ UNCHANGED <<alert, stateVars, obsVars, renderVars, graph, startup_log, alert_id,
                   state_created, fetch_status, peer>>

\* azure_webhook after graph.ainvoke returned: the save and the answer
azure_webhook_resume ==
    /\ pc = "END"
    /\ \E table \in TableOutcomes, hex \in UuidHex :
         LET row_key == sanitize_row_key(alert_id) \o <<"-">> \o hex
             entity  == [PartitionKey |-> classification, RowKey |-> row_key,
                         AlertId |-> alert_id]
         IN  persisted' = IF table = "stored" THEN Append(persisted, entity) ELSE persisted
    /\ response' = <<[classification |-> classification, report |-> final_report,
                      steps |-> investigation_steps]>>
    /\ http_status' = 200
    /\ pc' = "responded"
    /\ UNCHANGED <<alert, stateVars, obsVars, renderVars, graph, startup_log, alert_id,
                   state_created, fetch_status, peer>>

\* GET /api/alerts/{row_key} for a stored entity, with or without its partition key
get_alert ==
    /\ pc = "responded"
    /\ persisted # <<>>
    /\ \E client \in BOOLEAN, with_partition \in BOOLEAN :
         LET row_key       == persisted[1].RowKey
             partition_key == persisted[1].PartitionKey
         IN  fetch_status' =
                 IF ~client THEN 503
                 ELSE IF ~validate_row_key(row_key) THEN 400
                 ELSE IF with_partition /\ ~validate_row_key(partition_key) THEN 400
                 ELSE 200
    /\ pc' = "fetched"
    /\ UNCHANGED <<alert, stateVars, obsVars, renderVars, graph, startup_log, alert_id,
                   state_created, http_status, persisted, response, peer>>

InitService ==
    /\ pc = "import"
    /\ alert = IdleAlert
    /\ InitialState
    /\ template_key = <<>>
    /\ resource_name = <<>>
    /\ sanitized = NotRun
    /\ rendered = NotRun
    /\ graph = "unbuilt"
    /\ startup_log = <<>>
    /\ alert_id = <<>>
    /\ state_created = FALSE
    /\ http_status = 0
    /\ persisted = <<>>
    /\ response = <<>>
    /\ fetch_status = 0
    /\ peer = NoPeer

NextService ==
    \/ initialize_workflow_graph
    \/ azure_webhook
    \/ Next
    \/ azure_webhook_resume
    \/ get_alert

SpecService == InitService /\ [][NextService]_vars

(***************************************************************************)
(* Two requests on one event loop: two graph.ainvoke calls interleaved     *)
(***************************************************************************)
\* what one graph.ainvoke owns: its state dict and the calls made for it
Current ==
    [alert |-> alert, pc |-> pc, classification |-> classification,
     investigation_steps |-> investigation_steps, final_report |-> final_report,
     llm_calls |-> llm_calls, llm_out |-> llm_out, metric_calls |-> metric_calls,
     metric_out |-> metric_out, metrics_report |-> metrics_report,
     needs_logs |-> needs_logs, template_calls |-> template_calls,
     query_log |-> query_log, trace |-> trace, abort_cause |-> abort_cause]

\* variant: the nodes keep the steps in a module-level list both invocations use
Switch_shared_steps ==
    /\ peer.pc # "absent"
    /\ peer' = Current
    /\ alert' = peer.alert
    /\ pc' = peer.pc
    /\ classification' = peer.classification
    /\ investigation_steps' = investigation_steps
    /\ final_report' = peer.final_report
    /\ llm_calls' = peer.llm_calls
    /\ llm_out' = peer.llm_out
    /\ metric_calls' = peer.metric_calls
    /\ metric_out' = peer.metric_out
    /\ metrics_report' = peer.metrics_report
    /\ needs_logs' = peer.needs_logs
    /\ template_calls' = peer.template_calls
    /\ query_log' = peer.query_log
    /\ trace' = peer.trace
    /\ abort_cause' = peer.abort_cause
    /\ UNCHANGED <<renderVars, webVars>>

\* the event loop suspends the running invocation between two nodes and
\* resumes the waiting one; each invocation keeps its own state dict
Switch ==
    /\ peer.pc # "absent"
    /\ peer' = Current
    /\ alert' = peer.alert
    /\ pc' = peer.pc
    /\ classification' = peer.classification
    /\ investigation_steps' = peer.investigation_steps
    /\ final_report' = peer.final_report
    /\ llm_calls' = peer.llm_calls
    /\ llm_out' = peer.llm_out
    /\ metric_calls' = peer.metric_calls
    /\ metric_out' = peer.metric_out
    /\ metrics_report' = peer.metrics_report
    /\ needs_logs' = peer.needs_logs
    /\ template_calls' = peer.template_calls
    /\ query_log' = peer.query_log
    /\ trace' = peer.trace
    /\ abort_cause' = peer.abort_cause
    /\ UNCHANGED <<renderVars, webVars>>

PairAlerts ==
    ServiceAlerts \cup
    {a \in PipelineAlerts : a.alertRule = Rule_SqlDtu
                            /\ a.alertTargetIDs = <<Tgt_prefix \o Name_web1>>}

InitPair ==
    /\ alert \in PairAlerts
    /\ pc = "triage"
    /\ InitialState
    /\ template_key = <<>>
    /\ resource_name = <<>>
    /\ sanitized = NotRun
    /\ rendered = NotRun
    /\ WebIdle
    /\ peer \in {[NoPeer EXCEPT !.alert = b, !.pc = "triage"] : b \in PairAlerts}

NextPair ==
    \/ Next
    \/ Switch

SpecPair == InitPair /\ [][NextPair]_vars

(***************************************************************************)
(* Properties of the sanitizer and the template engine (SpecRender)        *)
(***************************************************************************)
IsUnknownCasing(name) == Lower(name) = Str_unknown

PipeCount(q) == Cardinality({i \in DOMAIN q : q[i] = "|"})

HasPlaceholder(q) == \E i \in DOMAIN q : q[i] = Placeholder

HasClauses == {" where ContainerAppName has ", " where AppRoleName has ", " where Resource has "}

EmptyFieldClauses ==
    {" where isempty(ContainerAppName)", " where isempty(AppRoleName)", " where isempty(Resource)"}

QuotedLiteral(name) == <<"\"">> \o Replace(name, "\"", <<"\"", "\"">>) \o <<"\"">>

\* the query's resource filter is `<field> has "<name>"`
FiltersOnLiteral(q, name) ==
    \E i \in DOMAIN q :
        /\ q[i] \in HasClauses
        /\ SubSeq(q, i + 1, i + Len(name) + 2) = QuotedLiteral(name)

\* the query's resource filter is `isempty(<field>)`
TargetsEmptyField(q) == \E i \in DOMAIN q : q[i] \in EmptyFieldClauses

\* the query has no resource filter, or one that compares with the empty literal
FilterAlwaysTrue(q) ==
    \/ ~\E i \in DOMAIN q : q[i] \in HasClauses \cup EmptyFieldClauses
    \/ \E i \in DOMAIN q : q[i] \in HasClauses /\ SubSeq(q, i + 1, i + 2) = <<"\"", "\"">>

\* the catalog entry a rendered query was made from, by its leading table
UsedTemplate(q) ==
    IF q[1] = "ContainerAppConsoleLogs" THEN "CONTAINER_LOGS"
    ELSE IF q[1] = "AzureDiagnostics" THEN "SQL_ERRORS"
    ELSE IF TargetsEmptyField(q) THEN "APP_FAILURES_UNKNOWN"
    ELSE "APP_FAILURES"

\* C2 as stated: for every key and every casing of "unknown", the rendered
\* query filters on an empty identifying field, never on the literal name,
\* and never with a filter that is always true.
C2_UnknownAlwaysEmptyField ==
    (rendered # NotRun /\ IsUnknownCasing(resource_name)) =>
        /\ rendered.ok
        /\ TargetsEmptyField(rendered.val)
        /\ ~FiltersOnLiteral(rendered.val, resource_name)
        /\ ~FilterAlwaysTrue(rendered.val)

\* C2 amended: for a casing of "unknown", a key containing "app" renders the
\* empty-field filter and never the literal name; every other key renders
\* the ordinary template filtering on the quoted literal name; in no case is
\* the filter always true.
C2_UnknownEmptyFieldForAppKeys ==
    (rendered # NotRun /\ IsUnknownCasing(resource_name)) =>
        /\ rendered.ok
        /\ ~FilterAlwaysTrue(rendered.val)
        /\ IF Contains(Lower(template_key), Str_app)
           THEN /\ TargetsEmptyField(rendered.val)
                /\ ~FiltersOnLiteral(rendered.val, resource_name)
           ELSE /\ FiltersOnLiteral(rendered.val, resource_name)
                /\ ~TargetsEmptyField(rendered.val)

C2_Witness ==
    /\ rendered # NotRun
    /\ resource_name = Name_uNkNoWn
    /\ template_key = Key_app_patterns
    /\ TargetsEmptyField(rendered.val)

\* the whitelist [A-Za-z0-9._/ -] of the specification
SpecWhitelistChar(c) ==
    \/ \E i \in 1..26 : LowerAZ[i] = c \/ UpperAZ[i] = c
    \/ c \in Digits
    \/ c \in {".", "_", "/", " ", "-"}

ForbiddenSequences ==
    {<<"\n">>, <<"\r">>, <<"|">>, <<"\\">>, <<"/","/">>, <<"/","*">>, <<"*","/">>}

HasForbidden(raw) == \E f \in ForbiddenSequences : Contains(raw, f)

SpecAccepts(raw) ==
    /\ raw # <<>>
    /\ Len(raw) <= 256
    /\ ~HasForbidden(raw)
    /\ \A i \in DOMAIN raw : SpecWhitelistChar(raw[i])

\* C3: sanitize succeeds exactly on the non-empty strings of at most 256
\* characters that have no forbidden sequence and only whitelist characters
\* (the space being the only white space), and then returns its input.
C3_SanitizeExactlyWhitelist ==
    (sanitized # NotRun) =>
        /\ sanitized.ok <=> SpecAccepts(resource_name)
        /\ sanitized.ok => sanitized.val = resource_name

\* C4: a name containing a pipe, a backslash, a newline, a carriage return
\* or a comment token is rejected with a ValueError and no value.
C4_ForbiddenRejected ==
    (sanitized # NotRun /\ HasForbidden(resource_name)) =>
        /\ ~sanitized.ok
        /\ sanitized.err = "ValueError"
        /\ sanitized.val = <<>>

C4_Witness ==
    /\ resource_name = <<"/", "/">>
    /\ sanitized = Raised("ValueError")

\* C5: for an accepted name that is not a casing of "unknown", the query is
\* the trimmed template with its one placeholder replaced by the quoted name:
\* same number of pipes as the template, no placeholder left.
C5_NameOnlyInsideLiteral ==
    (rendered # NotRun /\ sanitized # NotRun /\ sanitized.ok
       /\ ~IsUnknownCasing(resource_name)) =>
        /\ rendered.ok
        /\ LET t == Strip(TEMPLATES[UsedTemplate(rendered.val)])
               q == rendered.val
           IN  /\ \E i \in DOMAIN t :
                     /\ t[i] = Placeholder
                     /\ \A j \in DOMAIN t : t[j] = Placeholder => j = i
                     /\ q = SubSeq(t, 1, i - 1) \o QuotedLiteral(resource_name)
                              \o SubSeq(t, i + 1, Len(t))
               /\ PipeCount(q) = PipeCount(t)
               /\ ~HasPlaceholder(q)

C5_Witness ==
    /\ rendered.ok
    /\ sanitized.ok
    /\ resource_name = Name_web
    /\ template_key = Key_sql_errors
    /\ FiltersOnLiteral(rendered.val, Name_web)

Str_depend == <<"d","e","p","e","n","d">>

\* C7: the synonym keys app_impact_analysis, app_patterns, dependency_failures
\* and any key containing "depend" resolve to the application-failure
\* template; a key containing "sql" that matches no earlier rule resolves to
\* the SQL-error template.
C7_SynonymsResolveToAppFailures ==
    (rendered # NotRun /\ rendered.ok) =>
        LET k == Lower(template_key)
        IN  /\ (k \in {Key_app_impact_analysis, Key_app_patterns, Key_dependency_failures}
                  \/ Contains(k, Str_depend))
               => UsedTemplate(rendered.val) \in {"APP_FAILURES", "APP_FAILURES_UNKNOWN"}
            /\ (Contains(k, Str_sql) /\ ~Contains(k, Str_container)
                  /\ ~Contains(k, Str_app) /\ ~Contains(k, Str_depend))
               => UsedTemplate(rendered.val) = "SQL_ERRORS"

(***************************************************************************)
(* Properties of the classifier (SpecTriage)                               *)
(***************************************************************************)
Triaged == pc \notin {"triage", "render", "route"}

HasAppKeyword(a) == AnyIn(app_keywords, CombinedText(a))

HasDatabaseKeyword(a) == AnyIn(database_keywords, CombinedText(a))

HasNetworkKeyword(a) == AnyIn(network_keywords, CombinedText(a))

HasInfraKeyword(a) == AnyIn(infra_keywords, CombinedText(a))

HasInfraMetric(a) ==
    ExtractMetricName(a) # <<>> /\ AnyIn(infra_metric_names, Lower(ExtractMetricName(a)))

\* C9 as stated: an alert with an application keyword and a database keyword
\* from a service that is not application telemetry is classified DATABASE
\* whatever the external classifier returns.
C9_ServiceMissFallsThrough ==
    (Triaged /\ HasAppKeyword(alert) /\ HasDatabaseKeyword(alert)
       /\ ~IsApplicationService(alert)) =>
        classification = Cat_DATABASE

\* the first layer, in priority order, whose keyword condition matches (6: none)
FirstKeywordLayer(a) ==
    IF HasAppKeyword(a) THEN 1
    ELSE IF HasInfraMetric(a) THEN 2
    ELSE IF HasDatabaseKeyword(a) THEN 3
    ELSE IF HasNetworkKeyword(a) THEN 4
    ELSE IF HasInfraKeyword(a) THEN 5
    ELSE 6

LayerServiceOk(a) ==
    CASE FirstKeywordLayer(a) = 1 -> IsApplicationService(a)
      [] FirstKeywordLayer(a) \in {2, 5} -> IsPlatformService(a)
      [] FirstKeywordLayer(a) \in {3, 4} -> TRUE
      [] OTHER -> FALSE

LayerLabel(a) ==
    CASE FirstKeywordLayer(a) = 1 -> Cat_APP
      [] FirstKeywordLayer(a) \in {2, 5} -> Cat_INFRA
      [] FirstKeywordLayer(a) = 3 -> Cat_DATABASE
      [] FirstKeywordLayer(a) = 4 -> Cat_NETWORK
      [] OTHER -> PyNone

\* C9 amended: the first layer whose keyword condition matches decides alone:
\* a hard classification when its monitoring-service condition holds, the
\* external classifier (called once) otherwise and when no layer matches.  An
\* alert with an application and a database keyword from a service that is
\* not application telemetry gets the external classifier's label when that
\* is valid, and DATABASE when the classifier fails or answers out of set.
C9_FirstKeywordLayerDecides ==
    Triaged =>
        /\ LayerServiceOk(alert) => classification = LayerLabel(alert) /\ llm_calls = 0
        /\ ~LayerServiceOk(alert) => llm_calls = 1 /\ llm_out # NotRun
        /\ (HasAppKeyword(alert) /\ HasDatabaseKeyword(alert) /\ ~IsApplicationService(alert))
           => classification =
                 IF llm_out.ok /\ NormalizeLabel(llm_out.val) \in valid_categories
                 THEN NormalizeLabel(llm_out.val) ELSE Cat_DATABASE

C9_Witness ==
    /\ Triaged
    /\ alert.alertRule = Rule_DbTimeout
    /\ alert.monitoringService = Svc_Platform
    /\ llm_out = Returned(Cat_NETWORK)
    /\ classification = Cat_NETWORK

\* C10: a database keyword without an application keyword and without an
\* infrastructure metric name gives DATABASE, never NETWORK, whatever the
\* monitoring service and whatever the external classifier would do.
C10_DatabaseBeforeNetwork ==
    (Triaged /\ HasDatabaseKeyword(alert) /\ ~HasAppKeyword(alert)
       /\ ~AnyIn(infra_metric_names, CombinedText(alert))) =>
        /\ classification = Cat_DATABASE
        /\ classification # Cat_NETWORK

C10_Witness ==
    /\ Triaged
    /\ alert.alertRule = Rule_DnsSql
    /\ HasNetworkKeyword(alert)
    /\ alert.monitoringService = Svc_LogAlerts
    /\ classification = Cat_DATABASE

\* C11 as stated: "High CPU Usage" from Platform, without description and
\* without a metric name, is classified INFRA whatever the external
\* classifier does.
C11_HighCpuPlatformIsInfra ==
    (Triaged /\ alert.alertRule = Rule_HighCpu /\ alert.monitoringService = Svc_Platform
       /\ alert.description = <<>> /\ ExtractMetricName(alert) = <<>>) =>
        classification = Cat_INFRA

\* the external classifier was consulted and gave no label of the four
FallbackUsed ==
    /\ Triaged
    /\ llm_out # NotRun
    /\ ~(llm_out.ok /\ NormalizeLabel(llm_out.val) \in valid_categories)

WithService(a, s) == [a EXCEPT !.monitoringService = s]

\* C12 as stated: after a failed or out-of-set answer the classification is
\* a function of the alert's text and metric name alone: the same alert from
\* any other monitoring service that also reaches the fallback gets the same
\* classification.
C12_FallbackIgnoresService ==
    FallbackUsed =>
        \A s \in MonitoringServices :
            PreCheck(WithService(alert, s)) = PyNone
                => KeywordFallback(WithService(alert, s)) = classification

ServiceHas(a, word) == Contains(Lower(a.monitoringService), word)

\* C12 amended: after a failed or out-of-set answer the classification is
\* APP for an application keyword from a service named "application",
\* else DATABASE for a database keyword, else, for a known infrastructure
\* metric name, INFRA from a service named "platform" and APP from any
\* other, else NETWORK for a network keyword, else APP; the general
\* infrastructure keywords play no part.
C12_FallbackGatedByService ==
    FallbackUsed =>
        classification =
            IF HasAppKeyword(alert) /\ ServiceHas(alert, Str_application) THEN Cat_APP
            ELSE IF HasDatabaseKeyword(alert) THEN Cat_DATABASE
            ELSE IF HasInfraMetric(alert)
            THEN (IF ServiceHas(alert, Str_platform) THEN Cat_INFRA ELSE Cat_APP)
            ELSE IF HasNetworkKeyword(alert) THEN Cat_NETWORK
            ELSE Cat_APP

C12_Witness ==
    /\ FallbackUsed
    /\ alert.alertRule = Rule_Http500
    /\ ExtractMetricName(alert) = Metric_Cpu
    /\ alert.monitoringService = Svc_Platform
    /\ llm_out = Raised("Exception")
    /\ classification = Cat_INFRA

\* C13: the classification written by the triage stage is one of INFRA,
\* DATABASE, NETWORK, APP for every alert and every behaviour of the external
\* classifier.
C13_ClassificationInSet ==
    Triaged => classification \in valid_categories

C13_Witness ==
    /\ Triaged
    /\ llm_out \in {Raised("Exception"), Returned(<<>>), Returned(Llm_App_colon)}
    /\ classification \in valid_categories

\* C14: the external classifier is invoked at most once per alert, never
\* when a heuristic layer produced a hard classification, and a hard
\* classification is the final classification.
C14_ClassifierAtMostOnce ==
    /\ llm_calls <= 1
    /\ (Triaged /\ PreCheck(alert) # PyNone) =>
          /\ llm_calls = 0
          /\ llm_out = NotRun
          /\ classification = PreCheck(alert)
    /\ (Triaged /\ llm_out # NotRun) => llm_calls = 1

C14_Witness ==
    /\ Triaged
    /\ alert.alertRule = Rule_SqlDtu
    /\ PreCheck(alert) = Cat_DATABASE
    /\ llm_calls = 0
    /\ classification = Cat_DATABASE

(***************************************************************************)
(* Properties of the conditional edge (SpecRoute)                          *)
(***************************************************************************)
Routed == pc \in {"investigate_infra", "investigate_db", "investigate_network",
                  "investigate_app"}

ClassificationSet == classification # PyNone /\ classification # <<>>

ReducedHeuristic(a) ==
    IF Contains(a.alertRule, Str_SQL) \/ Contains(a.alertRule, Str_Database)
    THEN "investigate_db"
    ELSE IF Contains(a.alertRule, Str_App) THEN "investigate_app"
    ELSE IF a.monitoringService = Svc_Platform \/ a.monitoringService = Svc_Infrastructure
    THEN "investigate_infra"
    ELSE "investigate_app"

Stopped == pc \in {"END", "raised"}

ReporterRan == \E i \in DOMAIN trace : trace[i] = "reporter"

\* C1: whatever the collaborators do, a pipeline that has stopped has run the
\* reporter stage: no node lets an error escape the graph.
C1_StoppedOnlyAfterReporter == Stopped => ReporterRan

SanitizerRejected == \E i \in DOMAIN template_calls : ~template_calls[i].ok

\* C8: when the sanitizer rejects the alert's resource name on an
\* investigation path that renders templates, the rejection never ends the
\* pipeline: the investigating node finishes and verification follows.
C8_RejectionAbandonsOnlyStep ==
    SanitizerRejected => ~(pc = "raised" /\ abort_cause = "get_template")

(***************************************************************************)
(* Properties of the metric gate (SpecGate)                                *)
(***************************************************************************)
InfraRan == \E i \in DOMAIN trace : trace[i] = "investigate_infra"

\* the gate ran on an alert with a target resource
GateRan == InfraRan /\ metric_out # <<>>

Genuine(o) == o.kind = "value"

\* a genuine sample above the limit (both in thousandths)
Above(o, limit) == Genuine(o) /\ o.latest > limit

\* a sentinel, or a genuine sample at or below the limit
Healthy(o, limit) == ~Above(o, limit)

\* C15: with the other metrics healthy, a CPU or memory sample of exactly 90
\* does not escalate and a sample of 90.01 does.
C15_ThresholdStrictlyAbove90 ==
    GateRan =>
        LET cpu == metric_out[1]
            mem == metric_out[2]
            rst == metric_out[3]
        IN  /\ (cpu = MetricReading(90000) /\ Healthy(mem, 90000) /\ Healthy(rst, 0))
                  => ~needs_logs
            /\ (mem = MetricReading(90000) /\ Healthy(cpu, 90000) /\ Healthy(rst, 0))
                  => ~needs_logs
            /\ (cpu = MetricReading(90010) /\ Healthy(mem, 90000) /\ Healthy(rst, 0))
                  => needs_logs
            /\ (mem = MetricReading(90010) /\ Healthy(cpu, 90000) /\ Healthy(rst, 0))
                  => needs_logs

C15_Witness ==
    /\ GateRan
    /\ metric_out[1] = MetricReading(90000)
    /\ metric_out[2] = MetricReading(90000)
    /\ metric_out[3] = MetricReading(0)
    /\ ~needs_logs

\* C16: a sentinel never triggers escalation: whenever the gate escalates,
\* one of the three gated metrics is a genuine sample above its limit, so
\* three sentinels do not escalate.
C16_SentinelNeverEscalates ==
    GateRan =>
        /\ needs_logs => \/ Above(metric_out[1], 90000)
                         \/ Above(metric_out[2], 90000)
                         \/ Above(metric_out[3], 0)
        /\ (\A i \in 1..3 : ~Genuine(metric_out[i])) => ~needs_logs

C16_Witness ==
    /\ GateRan
    /\ metric_out[1] = MetricFailure("novalue")
    /\ metric_out[2] = MetricFailure("nulls")
    /\ metric_out[3] = MetricFailure("raise")
    /\ ~needs_logs
    /\ pc = "verify"

\* C17: the gate escalates exactly when CPU is a genuine sample above 90, or
\* memory is a genuine sample above 90, or the restart count is a genuine
\* sample above 0; the Requests fetch plays no part.
C17_EscalatesIffAnyAbove ==
    GateRan =>
        (needs_logs <=> \/ Above(metric_out[1], 90000)
                        \/ Above(metric_out[2], 90000)
                        \/ Above(metric_out[3], 0))

FailureSample(text, metric_name) ==
    /\ ~is_valid_metric_response(text)
    /\ Contains(text, metric_name)

\* C18: with a target resource, whatever fetches fail, CpuPercentage,
\* MemoryPercentage, RestartCount and Requests are each requested once, in
\* that order, and the metrics report has one entry per metric in that
\* order, a failed fetch being recorded as a failure sample.
C18_FourFetchesInOrder ==
    (InfraRan /\ FirstTarget(alert, Str_Unknown) # Str_Unknown) =>
        /\ metric_calls = <<Metric_Cpu, Metric_Memory, Metric_Restarts, Metric_Requests>>
        /\ Len(metrics_report) = 4
        /\ \A i \in 1..4 :
              IF Genuine(metric_out[i])
              THEN /\ is_valid_metric_response(metrics_report[i])
                   /\ Contains(metrics_report[i], metric_calls[i])
              ELSE FailureSample(metrics_report[i], metric_calls[i])

C18_Witness ==
    /\ GateRan
    /\ metric_out[1] = MetricFailure("raise")
    /\ metric_out[2] = MetricReading(95000)
    /\ metric_out[3] = MetricFailure("norecorded")
    /\ metric_out[4] = MetricReading(0)
    /\ metric_calls = <<Metric_Cpu, Metric_Memory, Metric_Restarts, Metric_Requests>>
    /\ needs_logs

InfraTemplateCalls == {i \in DOMAIN template_calls : template_calls[i].node = "infra"}

InfraQueries == {i \in DOMAIN query_log : query_log[i].node = "infra"}

\* the last two steps of the trail
LastTwoSteps ==
    SubSeq(investigation_steps, Len(investigation_steps) - 1, Len(investigation_steps))

C21_FixedStageOrder ==
    Stopped =>
        /\ trace = <<"triage", route_alert(classification, alert), "verify", "reporter">>
        /\ (metric_out # <<>>) => InfraRan

IsPrefix(s, t) == Len(s) <= Len(t) /\ SubSeq(t, 1, Len(s)) = s

\* C22: the trail is append-only: every stage leaves the trail it found as a
\* prefix of the trail it returns; no step is removed, replaced or reordered.
C22_TrailAppendOnly ==
    [][IsPrefix(investigation_steps, investigation_steps')]_vars

C22_Witness ==
    /\ pc = "END"
    /\ Len(investigation_steps) = 3
    /\ investigation_steps[1].kind = "Triaged as"
    /\ investigation_steps[2].kind = "Network investigation skipped (pending implementation)"
    /\ investigation_steps[3].kind = "Verification:"

IsDictReport(r) == r \in {StructuredReport, FallbackReport}

\* C24 as stated: the report field is null in every state before the final
\* stage has run.
C24_ReportNullUntilFinal ==
    (pc \notin {"END"}) => final_report = PyNone

\* C24 amended: the report field is null until the investigation node has
\* returned; the investigation node writes its raw findings there, verify
\* leaves them, and the reporter replaces them once with the structured
\* report or the fallback report, after which the field never changes.
C24_ReportRawThenStructured ==
    /\ (pc \in {"triage", "investigate_infra", "investigate_db", "investigate_app",
                "investigate_network", "raised"}) => final_report = PyNone
    /\ (pc \in {"verify", "reporter"}) =>
           (final_report # PyNone /\ ~IsDictReport(final_report))
    /\ (pc = "END") => IsDictReport(final_report)

C24_Witness ==
    /\ pc = "END"
    /\ final_report = FallbackReport
    /\ InfraRan

VerifyQueries == {i \in DOMAIN query_log : query_log[i].node = "verify"}

\* C28: for an alert classified DATABASE whose resource name the verify
\* stage accepts, the count query is run against AzureDiagnostics on the
\* Resource field; AppExceptions is queried only for the other alerts.
C28_DatabaseVerifiedOnDiagnostics ==
    \A i \in VerifyQueries :
        Contains(query_log[i].query, <<"AzureDiagnostics">>)
            <=> (classification = Cat_DATABASE)

NoActiveErrors(step) ==
    /\ step.kind = "Verification:"
    /\ step.arg = <<"No active errors detected in the last 5 minutes.">>

\* C29: on the log-count strategy verify records "No active errors detected"
\* exactly when the count query returned no rows or a count of zero; every
\* count above zero, 10 included, is recorded as still matching active logs.
C29_NoActiveErrorsIffZero ==
    (pc \in {"reporter", "END"}) =>
        \A i \in VerifyQueries :
            NoActiveErrors(investigation_steps[Len(investigation_steps)])
                <=> (query_log[i].result \in {NoLogsFound, CountRow(0)})

\* C30: a "Checked Metrics" step is in the trail only when at least one
\* metric was requested from the metric source.
C30_MetricsStepOnlyWhenRequested ==
    (\E i \in DOMAIN investigation_steps : investigation_steps[i].kind = "Checked Metrics")
        => metric_calls # <<>>

(***************************************************************************)
(* Properties of the web service (SpecService)                             *)
(***************************************************************************)
\* C23: the classification is written once, by triage: no later stage changes
\* it, and the classification returned to the caller and the partition key
\* of the stored entity are the value the final state holds.
C23_ClassificationSetOnceByTriage ==
    /\ [](\A i \in DOMAIN persisted : persisted[i].PartitionKey = classification)
    /\ [](\A i \in DOMAIN response : response[i].classification = classification)
    /\ []((pc \in {"verify", "reporter", "END", "responded", "fetched"})
             => classification \in valid_categories)
    /\ [][(pc # "triage") => (classification' = classification)]_vars

C23_Witness ==
    /\ pc = "fetched"
    /\ classification = Cat_DATABASE
    /\ persisted # <<>>
    /\ persisted[1].PartitionKey = Cat_DATABASE
    /\ response[1].classification = Cat_DATABASE
    /\ trace = <<"triage", "investigate_db", "verify", "reporter">>

\* C25: when the graph could not be built at startup the failure has been
\* logged at initialization, and every alert submitted is answered 503
\* before an initial state exists, before any classifier, metric, template or
\* log call, and before anything is stored.
C25_NoGraphNoProcessing ==
    (graph = "None") =>
        /\ startup_log # <<>>
        /\ startup_log[1] = "Failed to initialize workflow graph"
        /\ pc \in {"request", "rejected"}
        /\ (pc = "rejected") => http_status = 503
        /\ http_status \in {0, 503}
        /\ ~state_created
        /\ trace = <<>>
        /\ llm_calls = 0
        /\ metric_calls = <<>>
        /\ template_calls = <<>>
        /\ query_log = <<>>
        /\ persisted = <<>>
        /\ response = <<>>

C25_Witness ==
    /\ graph = "None"
    /\ pc = "rejected"
    /\ http_status = 503
    /\ alert \in ServiceAlerts

\* C27: every RowKey the webhook stores, sanitize_row_key(alertId) followed by
\* "-" and 8 hexadecimal characters, is accepted by validate_row_key, so the
\* stored entity is never refused by get_alert as an invalid row key.
C27_StoredRowKeyAccepted ==
    /\ \A i \in DOMAIN persisted : validate_row_key(persisted[i].RowKey)
    /\ fetch_status # 400

(***************************************************************************)
(* Properties of two interleaved requests (SpecPair)                       *)
(***************************************************************************)
\* the kinds of the steps a stage appends when it returns
StageKinds(stage, r) ==
    CASE stage = "triage" -> <<"Triaged as">>
      [] stage = "investigate_infra" ->
             <<"Checked Metrics",
               IF r.needs_logs THEN "Ran Template:" ELSE "Skipped Logs (Healthy)">>
      [] stage = "investigate_db" -> <<"Checked SQL Metrics (DTU, CPU)">>
      [] stage = "investigate_app" ->
             <<"Ran Impact Analysis (ProblemId grouping)",
               "Ran Intelligent Pattern Recognition",
               "Checked Dependency Failures",
               "Checked Recent Configuration Changes">>
      [] stage = "investigate_network" ->
             <<"Network investigation skipped (pending implementation)">>
      [] stage = "verify" -> <<"Verification:">>
      [] OTHER -> <<>>

RECURSIVE KindsOfStages(_, _, _)
KindsOfStages(r, i, n) ==
    IF i > n THEN <<>>
    ELSE StageKinds(r.trace[i], r) \o KindsOfStages(r, i + 1, n)

\* the stages of r that returned: all that started, but the one that raised
Returned_stages(r) == IF r.pc = "raised" THEN Len(r.trace) - 1 ELSE Len(r.trace)

\* the invocation r holds what its own alert and its own collaborator answers
\* give when processed alone
ProcessedAlone(r) ==
    /\ (r.trace = <<>>) =>
           /\ r.classification = PyNone
           /\ r.investigation_steps = <<>>
           /\ r.final_report = PyNone
    /\ (r.trace # <<>>) =>
           /\ r.trace[1] = "triage"
           /\ r.classification = Classify(r.alert, r.llm_out)
           /\ r.investigation_steps[1].arg =
                  r.classification \o <<" (Resource: ">>
                    \o ResourceType(FirstTarget(r.alert, <<>>)) \o <<")">>
    /\ (Len(r.trace) >= 2) => r.trace[2] = route_alert(r.classification, r.alert)
    /\ [i \in DOMAIN r.investigation_steps |-> r.investigation_steps[i].kind]
           = KindsOfStages(r, 1, Returned_stages(r))
    /\ (r.pc \in {"reporter", "END"} /\ r.alert.alertTargetIDs = <<>>) =>
           r.investigation_steps[Len(r.investigation_steps)].arg
               = <<"Could not verify current status.">>
    /\ (r.pc \in {"reporter", "END"} /\ r.alert.alertTargetIDs # <<>>) =>
           r.investigation_steps[Len(r.investigation_steps)].arg
               # <<"Could not verify current status.">>
    /\ \A i \in DOMAIN r.query_log :
           (r.query_log[i].node = "verify") => r.alert.alertTargetIDs # <<>>
    /\ (r.pc \in {"verify", "reporter"}) =>
           (r.final_report # PyNone /\ ~IsDictReport(r.final_report))
    /\ (r.pc = "END") => IsDictReport(r.final_report)

\* C26: in every interleaving of two invocations each one's classification,
\* trail and report are those of its own alert and its own collaborator
\* answers, no step of one is in the other's trail, and a stage of one
\* neither reads nor writes the state of the other.
C26_InvocationsIsolated ==
    /\ [](ProcessedAlone(Current) /\ ProcessedAlone(peer))
    /\ [][peer' = peer \/ (peer' = Current /\ Current' = peer)]_vars

C26_Witness ==
    /\ pc = "END"
    /\ peer.pc = "END"
    /\ alert.alertRule = Rule_Firewall
    /\ peer.alert.alertRule = Rule_SqlDtu
    /\ peer.alert.alertTargetIDs # <<>>
    /\ Len(investigation_steps) = 3
    /\ Len(peer.investigation_steps) = 3
    /\ trace[2] = "investigate_network"
    /\ peer.trace[2] = "investigate_db"

====
